---------------------------- MODULE Spec2Model ----------------------------
(* FestWiz: a model of the schedule page (src/schedule.js) and of the     *)
(* artist page (src/app.js).  Times "HH:MM" are pairs <<h, m>>, a null     *)
(* time is the empty tuple; names are sequences of one-character strings.  *)
EXTENDS Integers, Sequences, FiniteSets, TLC

VARIABLES
    layoutInput,    \* the shows handed to layoutColumns by renderTimeline
    layoutResult,   \* the array layoutColumns returned: [pos, col, totalCols]
    allArtists,     \* app.js allArtists: sequence of [name, entity_id]
    userArtists,    \* app.js userArtists, read from the persisted record
    ratings,        \* the ratings object of the open page: identity key -> 1..4
    storedRatings,  \* the ratings of the persisted sxsw2026_state record
    ratingsAtLoad,  \* history: the ratings map when the load began
    artistsPc,      \* where loadArtists stands: idle, fetching, done, threw
    fetched,        \* the responses of the fetches in flight
    userMergeRuns,  \* history: runs of the merge of user-submitted artists
    migrationRuns,  \* history: runs of the rating migration loop
    rendered,       \* renderArtists has drawn the list since the load began
    artistEntityIdMap, \* schedule.js: lower-cased artist name -> entity_id
    keyInput,       \* the show or artist whose rating key is being resolved
    keyResult,      \* the key showRatingKey / artistKey returned for it
    allShows,       \* schedule.js allShows: the merged in-memory events
    userShowsStore, \* localStorage sxsw2026_user_shows
    pendingCsvShows, \* parsed shows waiting for confirmation
    importOpen,     \* the CSV import modal is visible
    detailShow,     \* the show of the detail modal, <<>> while it is hidden
    selectedDay,    \* the selected day, NoDay before any day is selected
    dayOptions,     \* the options of the add-show / import day selects
    todayIso,       \* the calendar day of the visit
    schedPc,        \* where loadAll stands: closed, fetching, settled, loaded
    schedFetched,   \* the settled responses loadAll is about to read
    catalogShows,   \* history: the catalog events the last load put in allShows
    importReport,   \* the counts of the import alert: <<added, skipped>>
    csvText,        \* the lines of the CSV text handed to parseScheduleCsv
    csvShows,       \* the shows it returned, NotParsed before the call
    callArgs,       \* the arguments of the call of a pure function
    callResult,     \* <<what the call returned>>, NoResult before it returns
    selectedView,   \* schedule.js selectedView: grid, timeline, nownext, manage
    nowNextTimer,   \* schedule.js nowNextTimer: an interval id, NoTimer for null
    liveIntervals,  \* the ids of the intervals set and not cleared
    nextIntervalId, \* the id the next setInterval returns
    lastTick,       \* what the timer callback of the last step did, if it was one
    notes,          \* app.js notes: identity key -> note text
    genreTiers,     \* app.js genreTiers: genre -> tier
    subgenreTiers,  \* app.js subgenreTiers: subgenre -> tier
    storedRest      \* the persisted sxsw2026_state record without its ratings

layoutVars == <<layoutInput, layoutResult>>

artistVars == <<allArtists, userArtists, ratings, storedRatings, ratingsAtLoad,
                artistsPc, fetched, userMergeRuns, migrationRuns, rendered>>

keyVars == <<artistEntityIdMap, keyInput, keyResult>>

schedVars == <<allShows, userShowsStore, pendingCsvShows, importOpen, detailShow,
               selectedDay, dayOptions, todayIso, schedPc, schedFetched,
               catalogShows, importReport>>

csvVars == <<csvText, csvShows>>

callVars == <<callArgs, callResult>>

\* the view switch and the refresh timer of the now/next view
viewVars == <<selectedView, nowNextTimer, liveIntervals, nextIntervalId, lastTick>>

\* the variables of the parts that are checked on their own
persistVars == <<notes, genreTiers, subgenreTiers, storedRest>>

partVars == <<csvVars, callVars, viewVars, persistVars>>

vars == <<layoutVars, artistVars, keyVars, schedVars, partVars>>

(* ------------------------------ helpers ------------------------------- *)

NoTime == <<>>

Max(S) == CHOOSE x \in S : \A y \in S : y <= x

Range(f) == {f[i] : i \in DOMAIN f}

\* no timeline has been laid out
LayoutIdle ==
    /\ layoutInput = <<>>
    /\ layoutResult = <<>>

NotParsed == "not parsed"

\* parseScheduleCsv has not been called
CsvIdle ==
    /\ csvText = <<>>
    /\ csvShows = NotParsed

\* callResult holds <<value>> once the call has returned
NoResult == <<>>

\* no pure function is being called
CallIdle ==
    /\ callArgs = <<>>
    /\ callResult = NoResult

\* {}: an object without keys
EmptyObject == [k \in {} |-> 0]

\* the fields of the persisted record besides the ratings
StateRecord(n, g, sg, ua) ==
    [notes |-> n, genreTiers |-> g, subgenreTiers |-> sg, userArtists |-> ua]

\* no note, no tier, no user artist, in memory and in the persisted record
PersistIdle ==
    /\ notes = EmptyObject
    /\ genreTiers = EmptyObject
    /\ subgenreTiers = EmptyObject
    /\ storedRest = StateRecord(EmptyObject, EmptyObject, EmptyObject, <<>>)

PartsIdle == CsvIdle /\ CallIdle /\ PersistIdle

NoTimer == 0

\* the view variables as the script initialises them
ViewIdle ==
    /\ selectedView = "grid"
    /\ nowNextTimer = NoTimer
    /\ liveIntervals = {}
    /\ nextIntervalId = 1
    /\ lastTick = "none"

NoDay == 0

\* the default days of the day selects (days of March 2026)
FestivalDays == {12, 13}

NoShow == <<>>

\* the schedule page is not open
ScheduleClosed ==
    /\ allShows = <<>>
    /\ userShowsStore = <<>>
    /\ pendingCsvShows = <<>>
    /\ importOpen = FALSE
    /\ detailShow = NoShow
    /\ selectedDay = NoDay
    /\ dayOptions = {}
    /\ todayIso = NoDay
    /\ schedPc = "closed"
    /\ schedFetched = <<>>
    /\ catalogShows = {}
    /\ importReport = <<>>
    /\ ViewIdle

(* ------------------------------ time model ---------------------------- *)

DAY_START_HOUR == 9

DefaultLayoutMinutes == 45

minutesFromDayStartNoWrap(timeStr) ==
    (timeStr[1] - DAY_START_HOUR) * 60 + timeStr[2]

minutesFromDayStart(timeStr) ==
    LET h == timeStr[1]
        m == timeStr[2]
        effectiveH == IF h < DAY_START_HOUR THEN h + 24 ELSE h
    IN  (effectiveH - DAY_START_HOUR) * 60 + m

\* startMin / endMin as layoutColumns and renderTimeline compute them
StartMin(show) == minutesFromDayStart(show.start_time)

EndMin(show) ==
    IF show.end_time # NoTime THEN minutesFromDayStart(show.end_time)
    ELSE StartMin(show) + DefaultLayoutMinutes

\* the pairwise test of the second pass and of the conflict detection
Overlaps(a, b) == StartMin(a) < EndMin(b) /\ EndMin(a) > StartMin(b)

(* --------------------------- layoutColumns ---------------------------- *)

\* [...shows].sort((a, b) => start(a) - start(b)): Array.prototype.sort is
\* stable, so an element goes behind every element that does not start later.
RECURSIVE InsertByStartReversed(_, _, _)
InsertByStartReversed(shows, sorted, p) ==
    IF sorted = <<>> THEN <<p>>
    ELSE IF StartMin(shows[Head(sorted)]) < StartMin(shows[p])
         THEN <<Head(sorted)>> \o InsertByStartReversed(shows, Tail(sorted), p)
         ELSE <<p>> \o sorted

RECURSIVE InsertByStart(_, _, _)
InsertByStart(shows, sorted, p) ==
    IF sorted = <<>> THEN <<p>>
    ELSE IF StartMin(shows[Head(sorted)]) <= StartMin(shows[p])
         THEN <<Head(sorted)>> \o InsertByStart(shows, Tail(sorted), p)
         ELSE <<p>> \o sorted

\* the sorted copy, as positions into the input array (a position stands
\* for the show object the result entry refers to)
RECURSIVE SortedPositions(_, _)
SortedPositions(shows, n) ==
    IF n = 0 THEN <<>>
    ELSE InsertByStart(shows, SortedPositions(shows, n - 1), n)

\* "Remove expired": active.filter(a => a.endMin > startMin)
StillActive(active, startMin) == {a \in active : a.endMin > startMin}

\* "Find free column": let col = 0; while (usedCols.has(col)) col++
FreeColumnCount(active) == Cardinality(active)

FreeColumnAboveAll(active) ==
    IF active = {} THEN 0 ELSE Max({a.col : a \in active}) + 1

FreeColumn(active) ==
    LET usedCols == {a.col : a \in active}
    IN  CHOOSE c \in 0..Cardinality(usedCols) :
            /\ c \notin usedCols
            /\ \A d \in 0..(c - 1) : d \in usedCols

\* the first loop: one result entry per show of the sorted copy
RECURSIVE FirstPass(_, _, _, _)
FirstPass(shows, sorted, active, result) ==
    IF sorted = <<>> THEN result
    ELSE LET show == shows[Head(sorted)]
             still == StillActive(active, StartMin(show))
             col == FreeColumn(still)
         IN  FirstPass(shows, Tail(sorted),
                       still \cup {[endMin |-> EndMin(show), col |-> col]},
                       Append(result, [pos |-> Head(sorted), col |-> col,
                                       totalCols |-> 1]))

\* the second pass: totalCols = max col + 1 among the overlapping entries
TotalColsOwnOnly(shows, result, i) == result[i].col + 1

TotalColsEarlierOnly(shows, result, i) ==
    Max({result[i].col} \cup
        {result[j].col : j \in {k \in 1..i :
              Overlaps(shows[result[i].pos], shows[result[k].pos])}}) + 1

TotalCols(shows, result, i) ==
    Max({result[i].col} \cup
        {result[j].col : j \in {k \in DOMAIN result :
              Overlaps(shows[result[i].pos], shows[result[k].pos])}}) + 1

layoutColumns(shows) ==
    LET first == FirstPass(shows, SortedPositions(shows, Len(shows)), {}, <<>>)
    IN  [i \in DOMAIN first |->
            [first[i] EXCEPT !.totalCols = TotalCols(shows, first, i)]]

(* --------------------------- identity keys ---------------------------- *)

\* a null / absent entity_id; every test of it in the code is a truthiness test
NoId == 0

LowerCaseLetters ==
    {"a", "b", "c", "d", "e", "f", "g", "h", "i", "j", "k", "l", "m",
     "n", "o", "p", "q", "r", "s", "t", "u", "v", "w", "x", "y", "z"}

DigitChars == <<"0", "1", "2", "3", "4", "5", "6", "7", "8", "9">>

UpperCaseLetters ==
    <<"A", "B", "C", "D", "E", "F", "G", "H", "I", "J", "K", "L", "M",
      "N", "O", "P", "Q", "R", "S", "T", "U", "V", "W", "X", "Y", "Z">>

LowerCaseSeq ==
    <<"a", "b", "c", "d", "e", "f", "g", "h", "i", "j", "k", "l", "m",
      "n", "o", "p", "q", "r", "s", "t", "u", "v", "w", "x", "y", "z">>

\* String.prototype.toLowerCase, one character (ASCII letters)
LowerChar(c) ==
    IF \E i \in DOMAIN UpperCaseLetters : UpperCaseLetters[i] = c
    THEN LowerCaseSeq[CHOOSE i \in DOMAIN UpperCaseLetters : UpperCaseLetters[i] = c]
    ELSE c

toLowerCase(name) == [i \in DOMAIN name |-> LowerChar(name[i])]

\* .replace(/[^a-z0-9]/g, '_')
ReplaceNonAlnum(name) ==
    [i \in DOMAIN name |->
        IF name[i] \in LowerCaseLetters \cup Range(DigitChars)
        THEN name[i] ELSE "_"]

\* the decimal digits of a number, as string concatenation writes them
RECURSIVE NumberToString(_)
NumberToString(n) ==
    IF n < 10 THEN <<DigitChars[n + 1]>>
    ELSE NumberToString(n \div 10) \o <<DigitChars[(n % 10) + 1]>>

\* 'eid_' + entity_id
EidKey(id) == <<"e", "i", "d", "_">> \o NumberToString(id)

\* 'name_' + name.toLowerCase().replace(/[^a-z0-9]/g, '_')
NameKey(name) == <<"n", "a", "m", "e", "_">> \o ReplaceNonAlnum(toLowerCase(name))

artistKey(artist) ==
    IF artist.entity_id # NoId THEN EidKey(artist.entity_id)
    ELSE NameKey(artist.name)

\* showRatingKey reads the global artistEntityIdMap; `map` is that object
showRatingKeyRawLookup(show, map) ==
    IF show.entity_id # NoId THEN EidKey(show.entity_id)
    ELSE IF show.artist_name \in DOMAIN map
         THEN EidKey(map[show.artist_name])
         ELSE <<"n", "a", "m", "e", "_">> \o ReplaceNonAlnum(toLowerCase(show.artist_name))

showRatingKey(show, map) ==
    LET name == toLowerCase(show.artist_name)
    IN  IF show.entity_id # NoId THEN EidKey(show.entity_id)
        ELSE IF name \in DOMAIN map THEN EidKey(map[name])
        ELSE <<"n", "a", "m", "e", "_">> \o ReplaceNonAlnum(name)

NoKey == <<>>

KeysIdle ==
    /\ artistEntityIdMap = <<>>
    /\ keyInput = <<>>
    /\ keyResult = NoKey

(* ------------------------- the ratings object ------------------------- *)

NoRatings == [k \in {} |-> 0]

\* ratings[key] is truthy
HasRating(r, key) == key \in DOMAIN r

SetRating(r, key, value) ==
    [k \in DOMAIN r \cup {key} |-> IF k = key THEN value ELSE r[k]]

DeleteRating(r, key) == [k \in DOMAIN r \ {key} |-> r[k]]

(* ------------------------ the rating migration ------------------------ *)

\* the body of the loop for one artist
MigrateOneKeepsName(state, a) ==
    LET eidKey == EidKey(a.entity_id)
        nameKey == NameKey(a.name)
    IN  IF a.entity_id = NoId THEN state
        ELSE IF ~HasRating(state.ratings, eidKey) /\ HasRating(state.ratings, nameKey)
        THEN [ratings |-> SetRating(state.ratings, eidKey, state.ratings[nameKey]),
              ratingsMigrated |-> TRUE]
        ELSE state

MigrateOne(state, a) ==
    LET eidKey == EidKey(a.entity_id)
        nameKey == NameKey(a.name)
    IN  IF a.entity_id = NoId THEN state
        ELSE IF ~HasRating(state.ratings, eidKey) /\ HasRating(state.ratings, nameKey)
        THEN [ratings |-> DeleteRating(
                              SetRating(state.ratings, eidKey, state.ratings[nameKey]),
                              nameKey),
              ratingsMigrated |-> TRUE]
        ELSE state

\* for (const a of allArtists) { ... }
RECURSIVE MigrateLoopStopsAfterFirst(_, _)
MigrateLoopStopsAfterFirst(state, artists) ==
    IF artists = <<>> \/ state.ratingsMigrated THEN state
    ELSE MigrateLoopStopsAfterFirst(MigrateOne(state, Head(artists)), Tail(artists))

RECURSIVE MigrateLoop(_, _)
MigrateLoop(state, artists) ==
    IF artists = <<>> THEN state
    ELSE MigrateLoop(MigrateOne(state, Head(artists)), Tail(artists))

\* the migration of loadArtists: the loop, then the save if anything moved
MigrateRatings(artists, r) ==
    MigrateLoop([ratings |-> r, ratingsMigrated |-> FALSE], artists)

(* --------------------- the artists of the model ----------------------- *)

MaxArtists == 2

MaxMigrationRuns == 2

ArtistNames == {<<"B", "x">>, <<"b", "-", "x">>, <<"b", "_", "x">>}

EntityIds == {1, 2}

RatingValues == {1, 4}

AnyArtists == [name : ArtistNames, entity_id : EntityIds \cup {NoId}]

RatingKeys == {EidKey(id) : id \in EntityIds} \cup {NameKey(n) : n \in ArtistNames}

RatingMaps == UNION {[K -> RatingValues] : K \in SUBSET RatingKeys}

SeqsUpTo(S, n) == UNION {[1..k -> S] : k \in 0..n}

ArtistsIdle ==
    /\ allArtists = <<>>
    /\ userArtists = <<>>
    /\ ratings = NoRatings
    /\ storedRatings = NoRatings
    /\ ratingsAtLoad = NoRatings
    /\ artistsPc = "idle"
    /\ fetched = <<>>
    /\ userMergeRuns = 0
    /\ migrationRuns = 0
    /\ rendered = FALSE

\* the migration over any artist list and any ratings map
InitMigrate ==
    /\ PartsIdle
    /\ LayoutIdle
    /\ ScheduleClosed
    /\ KeysIdle
    /\ allArtists \in SeqsUpTo(AnyArtists, MaxArtists)
    /\ ratings \in RatingMaps
    /\ storedRatings = ratings
    /\ ratingsAtLoad = ratings
    /\ userArtists = <<>>
    /\ artistsPc = "idle"
    /\ fetched = <<>>
    /\ userMergeRuns = 0
    /\ migrationRuns = 0
    /\ rendered = FALSE

Migrate ==
    /\ migrationRuns < MaxMigrationRuns
    /\ LET after == MigrateRatings(allArtists, ratings)
       IN  /\ ratings' = after.ratings
           /\ storedRatings' = IF after.ratingsMigrated THEN after.ratings
                               ELSE storedRatings
    /\ migrationRuns' = migrationRuns + 1
    /\ UNCHANGED <<layoutVars, partVars, keyVars, schedVars, allArtists, userArtists,
                   ratingsAtLoad, artistsPc, fetched, userMergeRuns, rendered>>

NextMigrate == Migrate

SpecMigrate == InitMigrate /\ [][NextMigrate]_vars

(* ------------------------ resolving rating keys ----------------------- *)

\* a show's artist_name may be missing: (show.artist_name || '')
ShowNames == ArtistNames \cup {<<>>}

LowerNames == {toLowerCase(n) : n \in ArtistNames}

\* artistEntityIdMap as loadAll builds it: lower-cased name -> truthy id
EntityIdMaps == UNION {[K -> EntityIds] : K \in SUBSET LowerNames}

InitKey ==
    /\ PartsIdle
    /\ LayoutIdle
    /\ ScheduleClosed
    /\ ArtistsIdle
    /\ artistEntityIdMap \in EntityIdMaps
    /\ keyInput = <<>>
    /\ keyResult = NoKey

\* getRating(show) on the schedule page
ResolveShow ==
    /\ \E n \in ShowNames, id \in EntityIds \cup {NoId} :
          /\ keyInput' = [kind |-> "show", artist_name |-> n, entity_id |-> id]
          /\ keyResult' = showRatingKey(keyInput', artistEntityIdMap)
    /\ UNCHANGED <<layoutVars, partVars, artistVars, schedVars, artistEntityIdMap>>

\* artistKey(artist) on the artist page
ResolveArtist ==
    /\ \E a \in AnyArtists :
          /\ keyInput' = [kind |-> "artist", name |-> a.name, entity_id |-> a.entity_id]
          /\ keyResult' = artistKey(a)
    /\ UNCHANGED <<layoutVars, partVars, artistVars, schedVars, artistEntityIdMap>>

NextKey == ResolveShow \/ ResolveArtist

SpecKey == InitKey /\ [][NextKey]_vars

(* --------------------------- loadArtists ------------------------------ *)

\* a fetch resolves with an OK response carrying data, resolves with a
\* non-OK response, or rejects
OkResponse(data) == [status |-> "ok", data |-> data]

NotOkResponse == [status |-> "notok", data |-> <<>>]

Rejected == [status |-> "rejected", data |-> <<>>]

\* the names const [artistsResp, unofficialResp, unofficialShowsResp] declares
\* inside the try block are not in scope after it: the read of
\* unofficialShowsResp.ok that follows the catch throws a ReferenceError
UnofficialShowsRespInScope == FALSE

\* for (const ua of uData): push ua unless an artist of that lower-cased name
\* is there already (then only its links are merged into the match)
RECURSIVE MergeUnofficial(_, _)
MergeUnofficial(artists, uData) ==
    IF uData = <<>> THEN artists
    ELSE LET ua == Head(uData)
             officialMatch == \E i \in DOMAIN artists :
                                 toLowerCase(artists[i].name) = toLowerCase(ua.name)
         IN  MergeUnofficial(IF officialMatch THEN artists ELSE Append(artists, ua),
                             Tail(uData))

\* the try block and its catch: the artist list they leave behind
TryLoad(f) ==
    IF \E r \in Range(f) : r.status = "rejected" THEN <<>>
    ELSE IF f[1].status # "ok" THEN <<>>
    ELSE IF f[2].status = "ok" THEN MergeUnofficial(f[1].data, f[2].data)
    ELSE f[1].data

\* "Merge user-submitted artists from localStorage state"
RECURSIVE MergeUserArtists(_, _)
MergeUserArtists(artists, users) ==
    IF users = <<>> THEN artists
    ELSE LET ua == Head(users)
             exists == \E i \in DOMAIN artists :
                          toLowerCase(artists[i].name) = toLowerCase(ua.name)
         IN  MergeUserArtists(IF exists THEN artists ELSE Append(artists, ua),
                              Tail(users))

CatalogKinds == {[name |-> <<"B", "x">>, entity_id |-> 1],
                 [name |-> <<"b", "-", "x">>, entity_id |-> 2]}

NameOnlyKinds == [name : ArtistNames, entity_id : {NoId}]

MaxUnofficial == 1

LoadRatingMaps ==
    {NoRatings,
     NameKey(<<"B", "x">>) :> 4,
     (NameKey(<<"B", "x">>) :> 4) @@ (EidKey(1) :> 1)}

ArtistsResponses ==
    {OkResponse(d) : d \in SeqsUpTo(CatalogKinds, MaxArtists)}
        \cup {NotOkResponse, Rejected}

UnofficialResponses ==
    {OkResponse(d) : d \in SeqsUpTo(NameOnlyKinds, MaxUnofficial)}
        \cup {NotOkResponse, Rejected}

ShowsResponses == {OkResponse(<<>>), NotOkResponse, Rejected}

\* init() has read the persisted record (loadFromLocalStorage)
InitLoadArtists ==
    /\ PartsIdle
    /\ LayoutIdle
    /\ ScheduleClosed
    /\ KeysIdle
    /\ storedRatings \in LoadRatingMaps
    /\ ratings = storedRatings
    /\ ratingsAtLoad = storedRatings
    /\ userArtists \in SeqsUpTo(NameOnlyKinds, MaxUnofficial)
    /\ allArtists = <<>>
    /\ artistsPc = "idle"
    /\ fetched = <<>>
    /\ userMergeRuns = 0
    /\ migrationRuns = 0
    /\ rendered = FALSE

\* loadArtists() is called and issues its three fetches
BeginLoadArtists ==
    /\ artistsPc = "idle"
    /\ artistsPc' = "fetching"
    /\ \E a \in ArtistsResponses, u \in UnofficialResponses, us \in ShowsResponses :
          fetched' = <<a, u, us>>
    /\ ratingsAtLoad' = ratings
    /\ UNCHANGED <<layoutVars, partVars, keyVars, schedVars, allArtists, userArtists,
                   ratings, storedRatings, userMergeRuns, migrationRuns, rendered>>

\* Promise.all settles and the rest of loadArtists runs
SettleLoadArtists ==
    /\ artistsPc = "fetching"
    /\ fetched' = <<>>
    /\ IF UnofficialShowsRespInScope
       THEN LET merged == MergeUserArtists(TryLoad(fetched), userArtists)
                after == MigrateRatings(merged, ratings)
            IN  /\ allArtists' = merged
                /\ userMergeRuns' = userMergeRuns + 1
                /\ ratings' = after.ratings
                /\ storedRatings' = IF after.ratingsMigrated THEN after.ratings
                                    ELSE storedRatings
                /\ migrationRuns' = migrationRuns + 1
                /\ rendered' = TRUE
                /\ artistsPc' = "done"
       ELSE /\ allArtists' = TryLoad(fetched)
            /\ artistsPc' = "threw"
            /\ UNCHANGED <<ratings, storedRatings, userMergeRuns, migrationRuns,
                           rendered>>
    /\ UNCHANGED <<layoutVars, partVars, keyVars, schedVars, userArtists, ratingsAtLoad>>

\* the page is opened again: init() starts over from the persisted record
ReloadArtistPage ==
    /\ artistsPc \in {"done", "threw"}
    /\ allArtists' = <<>>
    /\ ratings' = storedRatings
    /\ ratingsAtLoad' = storedRatings
    /\ artistsPc' = "idle"
    /\ userMergeRuns' = 0
    /\ migrationRuns' = 0
    /\ rendered' = FALSE
    /\ UNCHANGED <<layoutVars, partVars, keyVars, schedVars, userArtists, storedRatings,
                   fetched>>

NextLoadArtists == BeginLoadArtists \/ SettleLoadArtists \/ ReloadArtistPage

SpecLoadArtists == InitLoadArtists /\ [][NextLoadArtists]_vars

(* ------------------- the persisted state record ----------------------- *)

\* { ...a, ...b }
MergeObjects(a, b) ==
    [k \in DOMAIN a \cup DOMAIN b |-> IF k \in DOMAIN b THEN b[k] ELSE a[k]]

\* JSON.stringify of the in-memory state, as saveToLocalStorage writes it
saveToLocalStorage(r, n, g, sg, ua) ==
    /\ storedRatings' = r
    /\ storedRest' = StateRecord(n, g, sg, ua)

\* a click on a button that toggles obj[key] between value and absent
ToggleKey(obj, key, value) ==
    IF HasRating(obj, key) /\ obj[key] = value THEN DeleteRating(obj, key)
    ELSE SetRating(obj, key, value)

PersistKeys == {EidKey(1), NameKey(<<"b">>)}

NoteTexts == {<<>>, <<"n">>}

Genres == {<<"R", "o", "c", "k">>}

Tiers == {"high", "hide"}

UserArtistX == [name |-> <<"X">>, entity_id |-> NoId]

\* the objects a backup file or a share URL may hold; <<>> for a field the
\* file does not have, <<value>> for one it has
BackupFiles ==
    [ratings : {<<>>, <<[k \in {EidKey(1)} |-> 4]>>},
     notes : {<<>>, <<[k \in {EidKey(1)} |-> <<"m">>]>>},
     genreTiers : {<<>>, <<[k \in Genres |-> "high"]>>},
     subgenreTiers : {<<>>},
     userArtists : {<<>>, <<(<<UserArtistX>>)>>}]

\* the artist page has loaded; nothing is rated or noted yet
InitPersist ==
    /\ LayoutIdle
    /\ KeysIdle
    /\ ScheduleClosed
    /\ PartsIdle
    /\ allArtists = <<>>
    /\ userArtists = <<>>
    /\ ratings = NoRatings
    /\ storedRatings = NoRatings
    /\ ratingsAtLoad = NoRatings
    /\ artistsPc = "done"
    /\ fetched = <<>>
    /\ userMergeRuns = 1
    /\ migrationRuns = 1
    /\ rendered = TRUE

persistFrame == <<layoutVars, keyVars, schedVars, csvVars, callVars, viewVars,
                  ratingsAtLoad, artistsPc, fetched, userMergeRuns,
                  migrationRuns, rendered>>

\* a click on a rating button of a card
ClickRating ==
    /\ \E key \in PersistKeys, newRating \in RatingValues :
          ratings' = ToggleKey(ratings, key, newRating)
    /\ saveToLocalStorage(ratings', notes, genreTiers, subgenreTiers, userArtists)
    /\ UNCHANGED <<persistFrame, allArtists, userArtists, notes, genreTiers,
                   subgenreTiers>>

\* input in the notes field of a card
EditNote ==
    /\ \E key \in PersistKeys, val \in NoteTexts :
          notes' = IF val # <<>> THEN SetRating(notes, key, val)
                   ELSE DeleteRating(notes, key)
    /\ saveToLocalStorage(ratings, notes', genreTiers, subgenreTiers, userArtists)
    /\ UNCHANGED <<persistFrame, allArtists, userArtists, ratings, genreTiers,
                   subgenreTiers>>

\* a click on a tier button of a genre row
ClickGenreTier ==
    /\ \E genre \in Genres, newTier \in Tiers :
          genreTiers' = ToggleKey(genreTiers, genre, newTier)
    /\ saveToLocalStorage(ratings, notes, genreTiers', subgenreTiers, userArtists)
    /\ UNCHANGED <<persistFrame, allArtists, userArtists, ratings, notes,
                   subgenreTiers>>

\* a click on a tier button of a subgenre row
ClickSubgenreTier ==
    /\ \E subgenre \in Genres, newTier \in Tiers :
          subgenreTiers' = ToggleKey(subgenreTiers, subgenre, newTier)
    /\ saveToLocalStorage(ratings, notes, genreTiers, subgenreTiers', userArtists)
    /\ UNCHANGED <<persistFrame, allArtists, userArtists, ratings, notes,
                   genreTiers>>

\* "Save" in the add-artist modal
SaveAddArtist ==
    /\ Len(userArtists) < MaxArtists
    /\ \E name \in {<<"X">>, <<"Y">>} :
          LET artist == [name |-> name, entity_id |-> NoId]
          IN  /\ allArtists' = Append(allArtists, artist)
              /\ userArtists' = Append(userArtists, artist)
    /\ saveToLocalStorage(ratings, notes, genreTiers, subgenreTiers, userArtists')
    /\ UNCHANGED <<persistFrame, ratings, notes, genreTiers, subgenreTiers>>

\* the user artists of a backup file that no user artist has the name of
NewUserArtists(have, imported) ==
    SelectSeq(imported,
              LAMBDA ua : ~\E i \in DOMAIN have :
                              toLowerCase(have[i].name) = toLowerCase(ua.name))

\* reader.onload of the backup-file import: each field the file has is merged
\* and saved in turn, then the user artists are pushed
ImportBackupFile ==
    /\ \E data \in BackupFiles :
          LET r == IF data.ratings # <<>>
                   THEN MergeObjects(ratings, data.ratings[1]) ELSE ratings
              n == IF data.notes # <<>>
                   THEN MergeObjects(notes, data.notes[1]) ELSE notes
              g == IF data.genreTiers # <<>>
                   THEN MergeObjects(genreTiers, data.genreTiers[1]) ELSE genreTiers
              sg == IF data.subgenreTiers # <<>>
                    THEN MergeObjects(subgenreTiers, data.subgenreTiers[1])
                    ELSE subgenreTiers
              saved == data.ratings # <<>> \/ data.notes # <<>>
                          \/ data.genreTiers # <<>> \/ data.subgenreTiers # <<>>
              added == IF data.userArtists # <<>>
                       THEN NewUserArtists(userArtists, data.userArtists[1])
                       ELSE <<>>
          IN  /\ Len(userArtists) + Len(added) <= MaxArtists
              /\ ratings' = r
              /\ notes' = n
              /\ genreTiers' = g
              /\ subgenreTiers' = sg
              /\ IF saved
                 THEN saveToLocalStorage(r, n, g, sg, userArtists)
                 ELSE UNCHANGED <<storedRatings, storedRest>>
              /\ userArtists' = userArtists \o added
              /\ allArtists' = allArtists \o added
    /\ UNCHANGED persistFrame

\* checkUrlImport, confirmed by the user
ImportFromUrl ==
    /\ \E data \in BackupFiles :
          /\ ratings' = IF data.ratings # <<>>
                        THEN MergeObjects(ratings, data.ratings[1]) ELSE ratings
          /\ notes' = IF data.notes # <<>>
                      THEN MergeObjects(notes, data.notes[1]) ELSE notes
          /\ genreTiers' = IF data.genreTiers # <<>>
                           THEN MergeObjects(genreTiers, data.genreTiers[1])
                           ELSE genreTiers
          /\ subgenreTiers' = IF data.subgenreTiers # <<>>
                              THEN MergeObjects(subgenreTiers, data.subgenreTiers[1])
                              ELSE subgenreTiers
    /\ saveToLocalStorage(ratings', notes', genreTiers', subgenreTiers', userArtists)
    /\ UNCHANGED <<persistFrame, allArtists, userArtists>>

NextPersist ==
    \/ ClickRating
    \/ EditNote
    \/ ClickGenreTier
    \/ ClickSubgenreTier
    \/ SaveAddArtist
    \/ ImportBackupFile
    \/ ImportFromUrl

SpecPersist == InitPersist /\ [][NextPersist]_vars

(* ----------------------- the timeline track --------------------------- *)

MaxShows == 4

LayoutTimes == {<<23, 0>>, <<23, 30>>, <<0, 0>>}

LayoutShows == [start_time : LayoutTimes, end_time : LayoutTimes \cup {NoTime}]

InitLayout ==
    /\ PartsIdle
    /\ LayoutIdle
    /\ ScheduleClosed
    /\ ArtistsIdle
    /\ KeysIdle

\* a show joins the day's track and renderTimeline lays the track out again
TrackAdd ==
    /\ Len(layoutInput) < MaxShows
    /\ \E s \in LayoutShows :
          /\ layoutInput' = Append(layoutInput, s)
          /\ layoutResult' = layoutColumns(layoutInput')
    /\ UNCHANGED <<artistVars, keyVars, schedVars, partVars>>

\* renderCurrentView on an unchanged track (filter click, resize, ...)
TrackRerender ==
    /\ layoutInput # <<>>
    /\ layoutResult' = layoutColumns(layoutInput)
    /\ UNCHANGED <<layoutInput, artistVars, keyVars, schedVars, partVars>>

NextLayout == TrackAdd \/ TrackRerender

SpecLayout == InitLayout /\ [][NextLayout]_vars

(* --------------------------- parseScheduleCsv ------------------------- *)

IsSpace(c) == c = " "

IsDigit(c) == \E i \in DOMAIN DigitChars : DigitChars[i] = c

RECURSIVE TrimLeft(_)
TrimLeft(str) ==
    IF str # <<>> /\ IsSpace(Head(str)) THEN TrimLeft(Tail(str)) ELSE str

RECURSIVE TrimRight(_)
TrimRight(str) ==
    IF str # <<>> /\ IsSpace(str[Len(str)])
    THEN TrimRight(SubSeq(str, 1, Len(str) - 1))
    ELSE str

\* String.prototype.trim
trim(str) == TrimRight(TrimLeft(str))

\* str.slice(from - 1): the characters from position `from` on
SliceFrom(str, from) == SubSeq(str, from, Len(str))

\* str.includes(sub)
Includes(str, sub) ==
    \E i \in 1..(Len(str) - Len(sub) + 1) : SubSeq(str, i, i + Len(sub) - 1) = sub

AllDigits(str) == \A i \in DOMAIN str : IsDigit(str[i])

DigitValue(c) == (CHOOSE i \in DOMAIN DigitChars : DigitChars[i] = c) - 1

\* parseInt / Number of a string of decimal digits
RECURSIVE parseInt(_)
parseInt(digits) ==
    IF digits = <<>> THEN 0
    ELSE 10 * parseInt(SubSeq(digits, 1, Len(digits) - 1))
         + DigitValue(digits[Len(digits)])

\* the "simple CSV split" of one line: commas outside quotes separate the
\* fields, quotes are dropped, every field is trimmed
RECURSIVE SplitCsvRow(_, _, _, _)
SplitCsvRow(row, current, inQuotes, result) ==
    IF row = <<>> THEN Append(result, trim(current))
    ELSE LET char == Head(row)
         IN  IF char = "\""
             THEN SplitCsvRow(Tail(row), current, ~inQuotes, result)
             ELSE IF char = "," /\ ~inQuotes
             THEN SplitCsvRow(Tail(row), <<>>, inQuotes,
                              Append(result, trim(current)))
             ELSE SplitCsvRow(Tail(row), Append(current, char), inQuotes, result)

CsvRows(lines) == [r \in DOMAIN lines |-> SplitCsvRow(lines[r], <<>>, FALSE, <<>>)]

RECURSIVE StripArrows(_)
StripArrows(str) ==
    IF str = <<>> THEN <<>>
    ELSE IF Head(str) \in {"<", ">"} THEN StripArrows(Tail(str))
    ELSE <<Head(str)>> \o StripArrows(Tail(str))

\* the venue names of the header row
HeaderVenues(header) ==
    [c \in 1..(Len(header) - 1) |-> trim(StripArrows(header[c + 1]))]

\* timeLabel.match(/^(\d{1,2}):(\d{2})\s*(AM|PM)$/i): the position of the
\* colon, 0 if the label is no hour marker
HourMatchColon(label) ==
    LET n == Len(label)
        at(k) == /\ n >= k + 2
                 /\ label[k] = ":"
                 /\ AllDigits(SubSeq(label, 1, k - 1))
                 /\ IsDigit(label[k + 1]) /\ IsDigit(label[k + 2])
                 /\ LET period == TrimLeft(SliceFrom(label, k + 3))
                    IN  /\ Len(period) = 2
                        /\ period[1] \in {"A", "a", "P", "p"}
                        /\ period[2] \in {"M", "m"}
    IN  IF at(2) THEN 2 ELSE IF at(3) THEN 3 ELSE 0

\* the base time an hour-marker label sets, in 24-hour form
HourMarkerTime(label) ==
    LET k == HourMatchColon(label)
        h == parseInt(SubSeq(label, 1, k - 1))
        period == LowerChar(TrimLeft(SliceFrom(label, k + 3))[1])
        h24 == IF period = "p" /\ h # 12 THEN h + 12
               ELSE IF period = "a" /\ h = 12 THEN 0
               ELSE h
    IN  <<h24, parseInt(SubSeq(label, k + 1, k + 2))>>

\* /^(day\s*\d|<|>)/i.test(timeLabel)
IsSkippedLabel(label) ==
    \/ label # <<>> /\ Head(label) \in {"<", ">"}
    \/ /\ Len(label) >= 4
       /\ toLowerCase(SubSeq(label, 1, 3)) = <<"d", "a", "y">>
       /\ LET rest == TrimLeft(SliceFrom(label, 4))
          IN  rest # <<>> /\ IsDigit(Head(rest))

NoSetTimes == <<"n", "o", " ", "s", "e", "t", " ", "t", "i", "m", "e", "s">>

\* "meta cells" that are not artists
IsMetaCell(cell) ==
    \/ Head(cell) \in {"(", "<", ">"}
    \/ Includes(toLowerCase(cell), NoSetTimes)

\* cell.match(/\((\d{3,4})\)\s*$/): the number of digits of the
\* parenthesised time at the end of the cell, 0 if there is none
TimeOverrideDigits(cell) ==
    LET n == Len(cell)
        at(k) == /\ n >= k + 2
                 /\ cell[n] = ")"
                 /\ cell[n - k - 1] = "("
                 /\ AllDigits(SubSeq(cell, n - k, n - 1))
    IN  IF at(3) THEN 3 ELSE IF at(4) THEN 4 ELSE 0

OverrideStartTimeNoShift(digits) ==
    LET t == IF Len(digits) = 3 THEN <<"0">> \o digits ELSE digits
    IN  <<parseInt(SubSeq(t, 1, 2)), parseInt(SubSeq(t, 3, 4))>>

\* the start time a "(315)" override gives: padStart(4, '0'), the first two
\* digits are the hour, hours below 9 are afternoon hours
OverrideStartTime(digits) ==
    LET t == IF Len(digits) = 3 THEN <<"0">> \o digits ELSE digits
        h == parseInt(SubSeq(t, 1, 2))
    IN  <<IF h < 9 THEN h + 12 ELSE h, parseInt(SubSeq(t, 3, 4))>>

DefaultSlotTimeNoWrap(base, slotOffset) ==
    LET slotTotalMin == base[1] * 60 + base[2] + slotOffset * 30
    IN  <<slotTotalMin \div 60, slotTotalMin % 60>>

\* the slot time of a row: base time plus 30 minutes per slot offset
DefaultSlotTime(base, slotOffset) ==
    LET slotTotalMin == base[1] * 60 + base[2] + slotOffset * 30
    IN  <<(slotTotalMin \div 60) % 24, slotTotalMin % 60>>

\* the show one cell of a data row gives, <<>> if the cell is skipped
CellShows(rawCell, venue, day, slotTime) ==
    LET cell == trim(rawCell)
    IN  IF cell = <<>> \/ venue = <<>> \/ IsMetaCell(cell) THEN <<>>
        ELSE LET k == TimeOverrideDigits(cell)
                 n == Len(cell)
                 artistName == IF k = 0 THEN cell
                               ELSE trim(SubSeq(cell, 1, n - k - 2))
                 startTime == IF k = 0 THEN slotTime
                              ELSE OverrideStartTime(SubSeq(cell, n - k, n - 1))
             IN  IF artistName = <<>> THEN <<>>
                 ELSE <<[artist_name |-> artistName, venue |-> venue,
                         day |-> day, start_time |-> startTime,
                         source |-> "user", entity_id |-> NoId]>>

\* for (let c = 1; c < row.length; c++) { ... }
RECURSIVE RowShows(_, _, _, _, _)
RowShows(row, c, venues, day, slotTime) ==
    IF c > Len(row) THEN <<>>
    ELSE CellShows(row[c], IF c - 1 \in DOMAIN venues THEN venues[c - 1] ELSE <<>>,
                   day, slotTime)
         \o RowShows(row, c + 1, venues, day, slotTime)

\* one pass of the row loop; st is [base, slotOffset, shows]
ParseRow(st, row, venues, day) ==
    LET timeLabel == trim(row[1])
        slotOffset == IF timeLabel = <<>> THEN 1 ELSE st.slotOffset
    IN  IF \A c \in DOMAIN row : row[c] = <<>> THEN st
        ELSE IF HourMatchColon(timeLabel) # 0
        THEN [st EXCEPT !.base = HourMarkerTime(timeLabel), !.slotOffset = 0]
        ELSE IF IsSkippedLabel(timeLabel) \/ st.base = NoTime
        THEN [st EXCEPT !.slotOffset = slotOffset]
        ELSE [st EXCEPT !.slotOffset = slotOffset,
                        !.shows = st.shows \o
                            RowShows(row, 2, venues, day,
                                     DefaultSlotTime(st.base, slotOffset))]

RECURSIVE ParseRows(_, _, _, _, _)
ParseRows(st, rows, r, venues, day) ==
    IF r > Len(rows) THEN st
    ELSE ParseRows(ParseRow(st, rows[r], venues, day), rows, r + 1, venues, day)

\* parseScheduleCsv(csvText, day); csvText is given as its lines
parseScheduleCsv(lines, day) ==
    LET rows == CsvRows(lines)
    IN  IF rows = <<>> THEN <<>>
        ELSE ParseRows([base |-> NoTime, slotOffset |-> 0, shows |-> <<>>],
                       rows, 2, HeaderVenues(rows[1]), day).shows

\* the CSV texts of the model: one header line and up to MaxCsvRows lines
\* drawn from the rows below
CsvHeader == <<"T", "i", "m", "e", ",", "V", "e", "n", "u", "e", " ", "A", ",", "V", "e", "n", "u", "e", " ", "B">>

\* 9:00 AM,Band X,Band Y
RowHourMarkerAM ==
    <<"9", ":", "0", "0", " ", "A", "M", ",", "B", "a", "n", "d", " ", "X", ",", "B", "a", "n", "d", " ", "Y">>

\* ,Band Z,
RowSecondSlot ==
    <<",", "B", "a", "n", "d", " ", "Z", ",">>

\* 2:00 PM,,
RowHourMarkerPM ==
    <<"2", ":", "0", "0", " ", "P", "M", ",", ",">>

\* ,Combo (215),
RowOverride3 ==
    <<",", "C", "o", "m", "b", "o", " ", "(", "2", "1", "5", ")", ",">>

\* x,Duo (1230),Band X
RowOverride4 ==
    <<"x", ",", "D", "u", "o", " ", "(", "1", "2", "3", "0", ")", ",", "B", "a", "n", "d", " ", "X">>

\* Day 2,Band X,
RowDayLabel ==
    <<"D", "a", "y", " ", "2", ",", "B", "a", "n", "d", " ", "X", ",">>

\* ,(tba),"A, B"
RowMetaAndQuoted ==
    <<",", "(", "t", "b", "a", ")", ",", "\"", "A", ",", " ", "B", "\"">>

\* 11:30 pm,,
RowHourMarkerLate ==
    <<"1", "1", ":", "3", "0", " ", "p", "m", ",", ",">>

\* ,Trio (930),
RowOverride9 ==
    <<",", "T", "r", "i", "o", " ", "(", "9", "3", "0", ")", ",">>

\* ,Solo (999),
RowOverride999 ==
    <<",", "S", "o", "l", "o", " ", "(", "9", "9", "9", ")", ",">>

CsvRowChoices ==
    {RowHourMarkerAM, RowSecondSlot, RowHourMarkerPM, RowOverride3,
     RowOverride4, RowOverride9, RowOverride999, RowDayLabel,
     RowMetaAndQuoted, RowHourMarkerLate}

MaxCsvRows == 3

CsvTexts == {<<CsvHeader>> \o body : body \in SeqsUpTo(CsvRowChoices, MaxCsvRows)}

\* a CSV file has been read and is about to be parsed
InitCsv ==
    /\ LayoutIdle
    /\ ArtistsIdle
    /\ KeysIdle
    /\ ScheduleClosed
    /\ CallIdle
    /\ PersistIdle
    /\ csvText \in CsvTexts
    /\ csvShows = NotParsed

\* reader.onload: pendingCsvShows = parseScheduleCsv(text, day)
ParseCsv ==
    /\ csvShows = NotParsed
    /\ \E day \in FestivalDays : csvShows' = parseScheduleCsv(csvText, day)
    /\ UNCHANGED <<layoutVars, artistVars, keyVars, schedVars, callVars, viewVars,
                   persistVars, csvText>>

NextCsv == ParseCsv

SpecCsv == InitCsv /\ [][NextCsv]_vars

(* ------------------------- minutesFromDayStart ------------------------ *)

\* `${String(h).padStart(2, '0')}:${String(m).padStart(2, '0')}`
HourMinuteString(h, m) ==
    <<DigitChars[(h \div 10) + 1], DigitChars[(h % 10) + 1], ":",
      DigitChars[(m \div 10) + 1], DigitChars[(m % 10) + 1]>>

\* timeStr.split(':').map(Number)
SplitHourMinute(timeStr) ==
    LET colon == CHOOSE i \in DOMAIN timeStr : timeStr[i] = ":"
    IN  <<parseInt(SubSeq(timeStr, 1, colon - 1)),
          parseInt(SubSeq(timeStr, colon + 1, Len(timeStr)))>>

\* every valid time of day, as the HH:MM string the page stores
ValidTimeStrings == {HourMinuteString(h, m) : h \in 0..23, m \in 0..59}

InitTime ==
    /\ LayoutIdle
    /\ ArtistsIdle
    /\ KeysIdle
    /\ ScheduleClosed
    /\ CsvIdle
    /\ PersistIdle
    /\ callArgs \in ValidTimeStrings
    /\ callResult = NoResult

CallMinutesFromDayStart ==
    /\ callResult = NoResult
    /\ callResult' = <<minutesFromDayStart(SplitHourMinute(callArgs))>>
    /\ UNCHANGED <<layoutVars, artistVars, keyVars, schedVars, csvVars, viewVars,
                   persistVars, callArgs>>

NextTime == CallMinutesFromDayStart

SpecTime == InitTime /\ [][NextTime]_vars

(* ------------------------- the schedule page -------------------------- *)

\* the natural key the merges compare: artist_name|venue|day|start_time
ShowKey(show) == <<show.artist_name, show.venue, show.day, show.start_time>>

KeysOf(shows) == {ShowKey(shows[i]) : i \in DOMAIN shows}

RECURSIVE FilterSeq(_, _)
FilterSeq(shows, keep) ==
    IF shows = <<>> THEN <<>>
    ELSE IF Head(shows) \in keep
         THEN <<Head(shows)>> \o FilterSeq(Tail(shows), keep)
         ELSE FilterSeq(Tail(shows), keep)

NotAlreadyInUnfiltered(existing, incoming) == incoming

\* the shows of `incoming` whose key no show of `existing` has; the key set is
\* built once, before the loop, and not extended by what the loop adds
NotAlreadyIn(existing, incoming) ==
    FilterSeq(incoming, {x \in Range(incoming) : ShowKey(x) \notin KeysOf(existing)})

MergeNew(existing, incoming) == existing \o NotAlreadyIn(existing, incoming)

\* appendUserShows: the persisted list plus the new shows it does not hold
appendUserShows(store, newShows) == MergeNew(store, newShows)

\* the filter of deleteShow, applied to allShows and to the persisted list
Without(shows, show) ==
    FilterSeq(shows, {x \in Range(shows) : ShowKey(x) # ShowKey(show)})

\* allDays(): the days of allShows, as a set (the code sorts them)
allDays(shows) == {shows[i].day : i \in DOMAIN shows}

Min(S) == CHOOSE x \in S : \A y \in S : x <= y

\* buildDayTabs: today if it has shows, else the first day; no change when
\* there is no day at all
buildDayTabs(shows, today, selected) ==
    LET days == allDays(shows)
    IN  IF days = {} THEN selected
        ELSE IF today \in days THEN today ELSE Min(days)

\* the calendar day of a visit: a festival day without catalog shows, or a
\* day outside the festival
TodayChoices == {13, NoDay}

\* populateDaySelects: the days of allShows, or the festival days if none
populateDaySelects(shows) ==
    IF allDays(shows) # {} THEN allDays(shows) ELSE FestivalDays

\* the static files of the model; days are days of March 2026
SlotTime == <<21, 30>>

OfficialShow ==
    [artist_name |-> <<"B">>, venue |-> <<"V">>, day |-> 12, start_time |-> SlotTime,
     source |-> "official", entity_id |-> 1]

ShowsJson == <<OfficialShow>>

UnofficialShowsJson ==
    <<[OfficialShow EXCEPT !.source = "unofficial", !.entity_id = NoId],
      [artist_name |-> <<"b">>, venue |-> <<"V">>, day |-> 12,
       start_time |-> SlotTime, source |-> "unofficial", entity_id |-> NoId]>>

\* artists.json: the official artist of the model
ArtistsJson == <<[name |-> <<"B">>, entity_id |-> 1]>>

\* the name -> entity_id map loadAll builds from artists.json
RECURSIVE BuildEntityIdMap(_, _)
BuildEntityIdMap(map, artistsData) ==
    IF artistsData = <<>> THEN map
    ELSE LET a == Head(artistsData)
             key == toLowerCase(a.name)
             next == IF a.name # <<>> /\ a.entity_id # NoId
                     THEN [k \in DOMAIN map \cup {key} |->
                              IF k = key THEN a.entity_id ELSE map[k]]
                     ELSE map
         IN  BuildEntityIdMap(next, Tail(artistsData))

\* the persisted sxsw2026_state records of the model (their ratings)
SchedStoredRatings ==
    {NoRatings,
     [k \in {EidKey(1), NameKey(<<"b">>)} |-> IF k = EidKey(1) THEN 4 ELSE 1]}

\* the shows the add-show form can produce; the form's source select is
\* taken at the value 'user', the one the manage list labels user-submitted
UserShows ==
    [artist_name : {<<"B">>, <<"b">>}, venue : {<<"V">>}, day : FestivalDays,
     start_time : {SlotTime}, source : {"user"}, entity_id : {NoId}]

MaxAllShows == 3

\* the CSV files of the import: "T,V", "9:00 PM" and second-slot rows for
\* venue V; a file may name one artist twice in the same slot
CsvFiles ==
    {<<<<"T", ",", "V">>, <<"9", ":", "0", "0", " ", "P", "M">>, <<",", "B">>>>,
     <<<<"T", ",", "V">>, <<"9", ":", "0", "0", " ", "P", "M">>, <<",", "b">>, <<",", "b">>>>}

\* what the parser returns for the files, per day of the import day select
ParsedCsvFiles ==
    [day \in FestivalDays |-> {parseScheduleCsv(file, day) : file \in CsvFiles}]

FetchOutcomes == {"ok", "notok", "rejected"}

\* the try block of loadAll: what it leaves in allShows.  The responses are
\* <<shows.json, unofficial_shows.json, venues.json, artists.json>>; a non-OK
\* response carries the host's error page, on which json() throws.
TryLoadAll(f) ==
    IF \E i \in DOMAIN f : f[i] = "rejected" THEN <<>>
    ELSE IF f[1] # "ok" THEN <<>>
    ELSE IF f[3] # "ok" THEN ShowsJson
    ELSE IF f[2] = "ok" THEN MergeNew(ShowsJson, UnofficialShowsJson)
    ELSE ShowsJson

\* the artistEntityIdMap the try block leaves: built only when the reads of
\* shows.json and venues.json before it did not throw and artists.json is OK
TryLoadEntityIdMap(f) ==
    IF /\ \A i \in DOMAIN f : f[i] # "rejected"
       /\ f[1] = "ok" /\ f[3] = "ok" /\ f[4] = "ok"
    THEN BuildEntityIdMap(<<>>, ArtistsJson)
    ELSE <<>>

\* getRating(show)
getRating(show) ==
    LET key == showRatingKey(show, artistEntityIdMap)
    IN  IF HasRating(ratings, key) THEN ratings[key] ELSE 0

(* ------------------- renderTimeline: conflict marks ------------------- *)

\* show.artist_name + show.venue + show.start_time: a concatenation without
\* separators
ConflictKey(show) ==
    show.artist_name \o show.venue
        \o HourMinuteString(show.start_time[1], show.start_time[2])

\* the positions of ratedShows in `shows`
ratedShows(shows) == {i \in DOMAIN shows : getRating(shows[i]) > 0}

\* the set `conflicting`: the keys of both shows of every overlapping pair
\* of rated shows
conflicting(shows) ==
    UNION {{ConflictKey(shows[i]), ConflictKey(shows[j])} :
           <<i, j>> \in {p \in ratedShows(shows) \X ratedShows(shows) :
                            /\ p[1] < p[2]
                            /\ Overlaps(shows[p[1]], shows[p[2]])}}

\* the positions whose block gets the class timeline-show--conflict
ConflictMarks(shows) ==
    {i \in DOMAIN shows : ConflictKey(shows[i]) \in conflicting(shows)}

\* the shows of the selected day handed to the timeline: user-added shows of
\* two artists in two venues whose names concatenate alike
TimelineShows ==
    [artist_name : {<<"A">>, <<"A", "B">>}, venue : {<<"B", "C">>, <<"C">>},
     start_time : {<<21, 30>>, <<22, 0>>, <<22, 15>>},
     end_time : {NoTime, <<22, 30>>}, entity_id : {NoId}]

TimelineRatings ==
    UNION {[keys -> {3}] : keys \in SUBSET {NameKey(<<"a">>), NameKey(<<"a", "b">>)}}

MaxTimelineShows == 3

InitConflict ==
    /\ LayoutIdle
    /\ KeysIdle
    /\ ScheduleClosed
    /\ CsvIdle
    /\ PersistIdle
    /\ allArtists = <<>>
    /\ userArtists = <<>>
    /\ ratings \in TimelineRatings
    /\ storedRatings = ratings
    /\ ratingsAtLoad = NoRatings
    /\ artistsPc = "idle"
    /\ fetched = <<>>
    /\ userMergeRuns = 0
    /\ migrationRuns = 0
    /\ rendered = FALSE
    /\ callArgs \in SeqsUpTo(TimelineShows, MaxTimelineShows)
    /\ callResult = NoResult

\* renderTimeline marks the blocks of the shows it was handed
MarkConflicts ==
    /\ callResult = NoResult
    /\ callResult' = <<ConflictMarks(callArgs)>>
    /\ UNCHANGED <<layoutVars, artistVars, keyVars, schedVars, csvVars, viewVars,
                   persistVars, callArgs>>

NextConflict == MarkConflicts

SpecConflict == InitConflict /\ [][NextConflict]_vars

(* --------------------- renderNowNext: the buckets --------------------- *)

\* instants are counted in half minutes since midnight of day 0, so that a
\* clock reading between two minutes is an instant too
TicksPerMinute == 2

NoInstant == -1

\* parseShowTime(day, timeStr): the Date of HH:MM on that calendar day
parseShowTime(day, timeStr) ==
    IF day = NoDay \/ timeStr = NoTime THEN NoInstant
    ELSE (day * 1440 + timeStr[1] * 60 + timeStr[2]) * TicksPerMinute

NowNextStart(show) == parseShowTime(show.day, show.start_time)

NowNextEnd(show) ==
    IF show.end_time # NoTime THEN parseShowTime(show.day, show.end_time)
    ELSE NowNextStart(show) + 60 * TicksPerMinute

\* the time test of the filter; the show, admission and search filters are
\* taken to let the show through
IsNowNextCandidate(show, now) ==
    /\ NowNextStart(show) # NoInstant
    /\ NowNextEnd(show) > now
    /\ NowNextStart(show) <= now + 2 * 60 * TicksPerMinute

\* shows.sort((a, b) => start(a) - start(b)), a stable sort
RECURSIVE SortByShowTime(_)
SortByShowTime(shows) ==
    IF shows = <<>> THEN <<>>
    ELSE LET rest == SortByShowTime(SubSeq(shows, 1, Len(shows) - 1))
             last == shows[Len(shows)]
             before == SelectSeq(rest, LAMBDA x : NowNextStart(x) <= NowNextStart(last))
             after == SelectSeq(rest, LAMBDA x : NowNextStart(x) > NowNextStart(last))
         IN  before \o <<last>> \o after

IsNow(show, now) == NowNextStart(show) <= now /\ NowNextEnd(show) > now

IsSoonStrict(show, now) == NowNextStart(show) - now < 45 * TicksPerMinute

\* minsUntil <= 45
IsSoon(show, now) == NowNextStart(show) - now <= 45 * TicksPerMinute

\* groups[0..2].shows: NOW, SOON, LATER
NowNextGroups(allOfThem, now) ==
    LET shows == SortByShowTime(SelectSeq(allOfThem,
                                          LAMBDA x : IsNowNextCandidate(x, now)))
    IN  [current |-> SelectSeq(shows, LAMBDA x : IsNow(x, now)),
         imminent |-> SelectSeq(shows, LAMBDA x : ~IsNow(x, now) /\ IsSoon(x, now)),
         upcoming |-> SelectSeq(shows, LAMBDA x : ~IsNow(x, now) /\ ~IsSoon(x, now))]

\* shows of day 12: an end before the start and an end equal to it included;
\* a late show and a show entered for the small hours of the same day
NowNextShows ==
    [day : {12}, start_time : {<<21, 0>>, <<21, 45>>},
     end_time : {NoTime, <<21, 40>>, <<21, 0>>}]
       \cup {[day |-> 12, start_time |-> <<23, 45>>, end_time |-> NoTime],
             [day |-> 12, start_time |-> <<0, 30>>, end_time |-> <<23, 59>>]}

MaxNowNextShows == 2

\* viewNow: every half minute from 18:45 to 22:15 of day 12, and 23:50
NowChoices ==
    {parseShowTime(12, <<18, 45>>) + t : t \in 0..(210 * TicksPerMinute)}
       \cup {parseShowTime(12, <<23, 50>>)}

InitNowNext ==
    /\ LayoutIdle
    /\ ArtistsIdle
    /\ KeysIdle
    /\ ScheduleClosed
    /\ CsvIdle
    /\ PersistIdle
    /\ callArgs \in [now : NowChoices,
                      shows : SeqsUpTo(NowNextShows, MaxNowNextShows)]
    /\ callResult = NoResult

FillNowNextGroups ==
    /\ callResult = NoResult
    /\ callResult' = <<NowNextGroups(callArgs.shows, callArgs.now)>>
    /\ UNCHANGED <<layoutVars, artistVars, keyVars, schedVars, csvVars, viewVars,
                   persistVars, callArgs>>

NextNowNext == FillNowNextGroups

SpecNowNext == InitNowNext /\ [][NextNowNext]_vars

(* ----------------------- getOrderedVenuesForDay ----------------------- *)

\* the UTF-16 code units of the characters of the model, in rising order
CodeUnitOrder == <<" ">> \o DigitChars \o UpperCaseLetters \o LowerCaseSeq

CodeUnit(c) == CHOOSE i \in DOMAIN CodeUnitOrder : CodeUnitOrder[i] = c

\* a < b as Array.prototype.sort() without a comparator orders strings
RECURSIVE StringLess(_, _)
StringLess(a, b) ==
    IF b = <<>> THEN FALSE
    ELSE IF a = <<>> THEN TRUE
    ELSE IF Head(a) # Head(b) THEN CodeUnit(Head(a)) < CodeUnit(Head(b))
    ELSE StringLess(Tail(a), Tail(b))

\* [...set].sort()
RECURSIVE SortStrings(_)
SortStrings(set) ==
    IF set = {} THEN <<>>
    ELSE LET first == CHOOSE x \in set : \A y \in set \ {x} : StringLess(x, y)
         IN  <<first>> \o SortStrings(set \ {first})

NoCluster == <<>>

\* venueToClusterKey[v]: the first member of the last cluster that lists v
venueToClusterKey(clusterDefs, v) ==
    LET listing == {i \in DOMAIN clusterDefs : v \in Range(clusterDefs[i])}
    IN  IF listing = {} THEN NoCluster ELSE clusterDefs[Max(listing)][1]

\* clusterByKey[key]: the last cluster whose first member is key
clusterByKey(clusterDefs, key) ==
    clusterDefs[Max({i \in DOMAIN clusterDefs : clusterDefs[i][1] = key})]

venueLastRating(dayShows, v) ==
    LET at == {i \in DOMAIN dayShows : dayShows[i].venue = v}
    IN  IF at = {} THEN 0 ELSE getRating(dayShows[Max(at)])

\* venueMaxRating[v] || 0
venueMaxRating(dayShows, v) ==
    Max({0} \cup {getRating(dayShows[i]) :
                     i \in {j \in DOMAIN dayShows : dayShows[j].venue = v}})

\* the loop over the sorted venues that builds `groups`
RECURSIVE BuildVenueGroups(_, _, _, _)
BuildVenueGroups(sorted, processed, dayShows, clusterDefs) ==
    IF sorted = <<>> THEN <<>>
    ELSE LET v == Head(sorted)
             clusterKey == venueToClusterKey(clusterDefs, v)
             members == IF clusterKey # NoCluster
                        THEN SelectSeq(clusterByKey(clusterDefs, clusterKey),
                                       LAMBDA m : m \in {dayShows[i].venue : i \in DOMAIN dayShows})
                        ELSE <<v>>
             group == [venues |-> members,
                       maxRating |-> Max({0} \cup {venueMaxRating(dayShows, members[i]) :
                                                      i \in DOMAIN members})]
         IN  IF v \in processed
             THEN BuildVenueGroups(Tail(sorted), processed, dayShows, clusterDefs)
             ELSE <<group>> \o BuildVenueGroups(Tail(sorted),
                                                 processed \cup Range(members),
                                                 dayShows, clusterDefs)

\* groups.sort((a, b) => b.maxRating - a.maxRating), a stable sort
RECURSIVE SortGroups(_)
SortGroups(groups) ==
    IF groups = <<>> THEN <<>>
    ELSE LET rest == SortGroups(SubSeq(groups, 1, Len(groups) - 1))
             last == groups[Len(groups)]
         IN  SelectSeq(rest, LAMBDA g : g.maxRating >= last.maxRating)
                \o <<last>>
                \o SelectSeq(rest, LAMBDA g : g.maxRating < last.maxRating)

\* groups.flatMap(g => g.venues)
RECURSIVE FlatVenues(_)
FlatVenues(groups) ==
    IF groups = <<>> THEN <<>> ELSE Head(groups).venues \o FlatVenues(Tail(groups))

getOrderedVenuesForDay(dayShows, clusterDefs) ==
    LET venueSet == {dayShows[i].venue : i \in DOMAIN dayShows}
    IN  FlatVenues(SortGroups(BuildVenueGroups(SortStrings(venueSet), {},
                                               dayShows, clusterDefs)))

GridVenues == {<<"A">>, <<"A", "b">>, <<"B">>, <<"a">>}

\* the shows of the day: artist p is rated 4, artist q 2, artist r is not rated
GridShows ==
    [artist_name : {<<"p">>, <<"q">>, <<"r">>}, venue : GridVenues,
     entity_id : {NoId}]

GridRatings == [k \in {NameKey(<<"p">>), NameKey(<<"q">>)} |->
                   IF k = NameKey(<<"p">>) THEN 4 ELSE 2]

MaxGridShows == 3

\* venueOrder.clusters of venues.json: none, one cluster, two clusters; a
\* cluster need not list its members alphabetically
ClusterConfigs ==
    {<<>>,
     <<<<(<<"B">>), (<<"A">>)>>>>,
     <<<<(<<"B">>), (<<"A">>)>>, <<(<<"a">>), (<<"A", "b">>)>>>>}

InitVenues ==
    /\ LayoutIdle
    /\ KeysIdle
    /\ ScheduleClosed
    /\ CsvIdle
    /\ PersistIdle
    /\ allArtists = <<>>
    /\ userArtists = <<>>
    /\ ratings = GridRatings
    /\ storedRatings = ratings
    /\ ratingsAtLoad = NoRatings
    /\ artistsPc = "idle"
    /\ fetched = <<>>
    /\ userMergeRuns = 0
    /\ migrationRuns = 0
    /\ rendered = FALSE
    /\ callArgs \in [dayShows : SeqsUpTo(GridShows, MaxGridShows),
                      clusters : ClusterConfigs]
    /\ callResult = NoResult

OrderVenues ==
    /\ callResult = NoResult
    /\ callResult' = <<getOrderedVenuesForDay(callArgs.dayShows, callArgs.clusters)>>
    /\ UNCHANGED <<layoutVars, artistVars, keyVars, schedVars, csvVars, viewVars,
                   persistVars, callArgs>>

NextVenues == OrderVenues

SpecVenues == InitVenues /\ [][NextVenues]_vars

\* cluster lists venues.json may equally hold: a venue listed by two
\* clusters, and two clusters that start with the same venue
OverlappingClusterConfigs ==
    {<<<<(<<"A">>), (<<"B">>)>>, <<(<<"B">>), (<<"a">>)>>>>,
     <<<<(<<"A">>), (<<"B">>)>>, <<(<<"A">>), (<<"a">>)>>>>}

InitVenuesAny ==
    /\ LayoutIdle
    /\ KeysIdle
    /\ ScheduleClosed
    /\ CsvIdle
    /\ PersistIdle
    /\ allArtists = <<>>
    /\ userArtists = <<>>
    /\ ratings = GridRatings
    /\ storedRatings = ratings
    /\ ratingsAtLoad = NoRatings
    /\ artistsPc = "idle"
    /\ fetched = <<>>
    /\ userMergeRuns = 0
    /\ migrationRuns = 0
    /\ rendered = FALSE
    /\ callArgs \in [dayShows : SeqsUpTo(GridShows, MaxGridShows),
                      clusters : ClusterConfigs \cup OverlappingClusterConfigs]
    /\ callResult = NoResult

SpecVenuesAny == InitVenuesAny /\ [][NextVenues]_vars

\* the schedule page before its first visit; the persisted record is what
\* the artist page left
InitSchedule ==
    /\ PartsIdle
    /\ LayoutIdle
    /\ KeysIdle
    /\ ScheduleClosed
    /\ allArtists = <<>>
    /\ userArtists = <<>>
    /\ ratings = NoRatings
    /\ storedRatings \in SchedStoredRatings
    /\ ratingsAtLoad = NoRatings
    /\ artistsPc = "idle"
    /\ fetched = <<>>
    /\ userMergeRuns = 0
    /\ migrationRuns = 0
    /\ rendered = FALSE

\* the variables of the artist page that the schedule page does not have
artistOnlyVars == <<allArtists, userArtists, ratingsAtLoad, artistsPc, fetched,
                    userMergeRuns, migrationRuns, rendered>>

keyIoVars == <<keyInput, keyResult>>

\* the schedule page is opened (or reloaded): init() issues loadAll's fetches
OpenSchedulePage ==
    /\ schedPc \in {"closed", "fetching", "settled", "loaded"}
    /\ schedPc' = "fetching"
    /\ \E d \in TodayChoices : todayIso' = d
    /\ allShows' = <<>>
    /\ pendingCsvShows' = <<>>
    /\ importOpen' = FALSE
    /\ detailShow' = NoShow
    /\ selectedDay' = NoDay
    /\ dayOptions' = {}
    /\ catalogShows' = {}
    /\ ratings' = NoRatings
    /\ artistEntityIdMap' = <<>>
    /\ schedFetched' = <<>>
    /\ importReport' = <<>>
    /\ UNCHANGED <<layoutVars, partVars, artistOnlyVars, keyIoVars, storedRatings,
                   userShowsStore>>

\* Promise.all settles: every fetch has resolved (OK or not) or one rejected
FetchesSettle ==
    /\ schedPc = "fetching"
    /\ schedPc' = "settled"
    /\ \E f \in [1..4 -> FetchOutcomes] : schedFetched' = f
    /\ UNCHANGED <<layoutVars, partVars, artistVars, keyVars, allShows, userShowsStore,
                   pendingCsvShows, importOpen, detailShow, selectedDay,
                   dayOptions, todayIso, catalogShows, importReport>>

\* the rest of loadAll runs on the settled responses
SettleLoadAll ==
    /\ schedPc = "settled"
    /\ LET loaded == TryLoadAll(schedFetched)
           merged == MergeNew(loaded, userShowsStore)
       IN  /\ allShows' = merged
           /\ catalogShows' = Range(loaded)
           /\ \E paramDay \in FestivalDays \cup {NoDay} :
                 selectedDay' = IF paramDay # NoDay /\ paramDay \in allDays(merged)
                                THEN paramDay
                                ELSE buildDayTabs(merged, todayIso, selectedDay)
           /\ dayOptions' = populateDaySelects(merged)
    /\ schedPc' = "loaded"
    /\ artistEntityIdMap' = TryLoadEntityIdMap(schedFetched)
    /\ ratings' = storedRatings
    /\ schedFetched' = <<>>
    /\ UNCHANGED <<layoutVars, partVars, artistOnlyVars, keyIoVars, storedRatings,
                   userShowsStore, pendingCsvShows, importOpen, detailShow,
                   todayIso, importReport>>

\* a click on a day tab
SelectDay ==
    /\ schedPc = "loaded"
    /\ \E d \in allDays(allShows) : selectedDay' = d
    /\ UNCHANGED <<layoutVars, partVars, artistVars, keyVars, allShows, userShowsStore,
                   pendingCsvShows, importOpen, detailShow, dayOptions, todayIso,
                   schedPc, catalogShows,
                   schedFetched, importReport>>

\* "Save" in the add-show modal
AddShow ==
    /\ schedPc = "loaded"
    /\ Len(allShows) < MaxAllShows
    /\ \E show \in UserShows :
          /\ show.day \in dayOptions
          /\ allShows' = Append(allShows, show)
          /\ userShowsStore' = appendUserShows(userShowsStore, <<show>>)
          /\ selectedDay' = buildDayTabs(allShows', todayIso, selectedDay)
    /\ UNCHANGED <<layoutVars, partVars, artistVars, keyVars, pendingCsvShows, importOpen,
                   detailShow, dayOptions, todayIso, schedPc,
                   catalogShows, schedFetched, importReport>>

\* "Import CSV" in the manage view
OpenImportModal ==
    /\ schedPc = "loaded"
    /\ ~importOpen
    /\ importOpen' = TRUE
    /\ pendingCsvShows' = <<>>
    /\ importReport' = <<>>
    /\ UNCHANGED <<layoutVars, partVars, artistVars, keyVars, allShows, userShowsStore,
                   detailShow, selectedDay, dayOptions, todayIso, schedPc, catalogShows,
                   schedFetched>>

\* a file is chosen and parsed for the day of the import day select
ChooseCsvFile ==
    /\ importOpen
    /\ \E day \in dayOptions : \E parsed \in ParsedCsvFiles[day] :
          pendingCsvShows' = parsed
    /\ UNCHANGED <<layoutVars, partVars, artistVars, keyVars, allShows, userShowsStore,
                   importOpen, detailShow, selectedDay, dayOptions, todayIso,
                   schedPc, catalogShows,
                   schedFetched, importReport>>

CancelImport ==
    /\ importOpen
    /\ importOpen' = FALSE
    /\ UNCHANGED <<layoutVars, partVars, artistVars, keyVars, allShows, userShowsStore,
                   pendingCsvShows, detailShow, selectedDay, dayOptions, todayIso,
                   schedPc, catalogShows,
                   schedFetched, importReport>>

\* "Import" in the CSV modal
ConfirmImport ==
    /\ importOpen
    /\ pendingCsvShows # <<>>
    /\ LET newShows == NotAlreadyIn(allShows, pendingCsvShows)
       IN  /\ Len(allShows) + Len(newShows) <= MaxAllShows
           /\ allShows' = allShows \o newShows
           /\ userShowsStore' = appendUserShows(userShowsStore, newShows)
           /\ importReport' = <<Len(newShows), Len(pendingCsvShows) - Len(newShows)>>
    /\ importOpen' = FALSE
    /\ selectedDay' = buildDayTabs(allShows', todayIso, selectedDay)
    /\ dayOptions' = populateDaySelects(allShows')
    /\ UNCHANGED <<layoutVars, partVars, artistVars, keyVars, pendingCsvShows, detailShow,
                   todayIso, schedPc, catalogShows,
                   schedFetched>>

deleteShowDropsRating(show) ==
    /\ allShows' = Without(allShows, show)
    /\ userShowsStore' = Without(userShowsStore, show)
    /\ detailShow' = NoShow
    /\ ratings' = DeleteRating(ratings, showRatingKey(show, artistEntityIdMap))
    /\ UNCHANGED <<layoutVars, partVars, artistOnlyVars, storedRatings, keyVars,
                   pendingCsvShows, importOpen, selectedDay, dayOptions,
                   todayIso, schedPc, catalogShows, schedFetched, importReport>>

\* deleteShow(show)
deleteShow(show) ==
    /\ allShows' = Without(allShows, show)
    /\ userShowsStore' = Without(userShowsStore, show)
    /\ detailShow' = NoShow
    /\ UNCHANGED <<layoutVars, partVars, artistVars, keyVars, pendingCsvShows, importOpen,
                   selectedDay, dayOptions, todayIso, schedPc,
                   catalogShows, schedFetched, importReport>>

\* the x of a row of the manage list: every show of the selected day has one
DeleteFromManage ==
    /\ schedPc = "loaded"
    /\ \E i \in DOMAIN allShows :
          /\ allShows[i].day = selectedDay
          /\ deleteShow(allShows[i])

\* a click on a show opens its detail modal
OpenDetail ==
    /\ schedPc = "loaded"
    /\ detailShow = NoShow
    /\ \E i \in DOMAIN allShows : detailShow' = allShows[i]
    /\ UNCHANGED <<layoutVars, partVars, artistVars, keyVars, allShows, userShowsStore,
                   pendingCsvShows, importOpen, selectedDay, dayOptions, todayIso,
                   schedPc, catalogShows,
                   schedFetched, importReport>>

CloseDetail ==
    /\ detailShow # NoShow
    /\ detailShow' = NoShow
    /\ UNCHANGED <<layoutVars, partVars, artistVars, keyVars, allShows, userShowsStore,
                   pendingCsvShows, importOpen, selectedDay, dayOptions, todayIso,
                   schedPc, catalogShows,
                   schedFetched, importReport>>

\* the delete button of the detail modal, shown for source 'user' only
DeleteFromDetail ==
    /\ detailShow # NoShow
    /\ detailShow.source = "user"
    /\ deleteShow(detailShow)

Next ==
    \/ OpenSchedulePage
    \/ FetchesSettle
    \/ SettleLoadAll
    \/ SelectDay
    \/ AddShow
    \/ OpenImportModal
    \/ ChooseCsvFile
    \/ CancelImport
    \/ ConfirmImport
    \/ DeleteFromManage
    \/ OpenDetail
    \/ CloseDetail
    \/ DeleteFromDetail

Spec == InitSchedule /\ [][Next]_vars

(* ------------------- view switching and the refresh ------------------- *)

Views == {"grid", "timeline", "nownext", "manage"}

\* setInterval is called at most this many times in a behaviour
MaxIntervalId == 4

\* the page is loaded and shows the grid; no show data is needed here
InitView ==
    /\ LayoutIdle
    /\ ArtistsIdle
    /\ KeysIdle
    /\ PartsIdle
    /\ ViewIdle
    /\ allShows = <<>>
    /\ userShowsStore = <<>>
    /\ pendingCsvShows = <<>>
    /\ importOpen = FALSE
    /\ detailShow = NoShow
    /\ selectedDay = NoDay
    /\ dayOptions = {}
    /\ todayIso = NoDay
    /\ schedPc = "loaded"
    /\ schedFetched = <<>>
    /\ catalogShows = {}
    /\ importReport = <<>>

\* renderNowNext, entered with the timer handle `timer` and the live
\* intervals `live`: it returns early when no show is in the window, else it
\* ends by setting a new interval and storing its id
renderNowNext(timer, live) ==
    \E anyShows \in BOOLEAN :
       IF anyShows
       THEN /\ nextIntervalId <= MaxIntervalId
            /\ nowNextTimer' = nextIntervalId
            /\ liveIntervals' = live \cup {nextIntervalId}
            /\ nextIntervalId' = nextIntervalId + 1
       ELSE /\ nowNextTimer' = timer
            /\ liveIntervals' = live
            /\ UNCHANGED nextIntervalId

\* renderCurrentView for the view `view`: the interval of nowNextTimer is
\* cleared, then the view is drawn
renderCurrentView(view) ==
    LET live == IF nowNextTimer # NoTimer THEN liveIntervals \ {nowNextTimer}
                ELSE liveIntervals
    IN  IF view = "nownext" THEN renderNowNext(NoTimer, live)
        ELSE /\ nowNextTimer' = NoTimer
             /\ liveIntervals' = live
             /\ UNCHANGED nextIntervalId

\* a click on a button of the view nav
ClickViewButton ==
    /\ \E view \in Views :
          /\ selectedView' = view
          /\ renderCurrentView(view)
    /\ lastTick' = "none"
    /\ UNCHANGED <<layoutVars, artistVars, keyVars, schedVars, csvVars, callVars, persistVars>>

\* a click on a day tab: the current view is drawn again
ClickDayTab ==
    /\ renderCurrentView(selectedView)
    /\ lastTick' = "none"
    /\ UNCHANGED <<layoutVars, artistVars, keyVars, schedVars, csvVars, callVars, persistVars,
                   selectedView>>

\* a click on a time-shift button of the now/next banner
ClickShiftButton ==
    /\ selectedView = "nownext"
    /\ renderNowNext(nowNextTimer, liveIntervals)
    /\ lastTick' = "none"
    /\ UNCHANGED <<layoutVars, artistVars, keyVars, schedVars, csvVars, callVars, persistVars,
                   selectedView>>

TimerCallbackRendersAlways(view) == TRUE

\* the test of the interval callback
TimerCallbackRenders(view) == view = "nownext"

\* 60 s have passed on a live interval: its callback runs
TimerTick ==
    /\ \E id \in liveIntervals :
          IF TimerCallbackRenders(selectedView)
          THEN /\ renderNowNext(nowNextTimer, liveIntervals)
               /\ lastTick' = "rendered"
          ELSE /\ lastTick' = "skipped"
               /\ UNCHANGED <<nowNextTimer, liveIntervals, nextIntervalId>>
    /\ UNCHANGED <<layoutVars, artistVars, keyVars, schedVars, csvVars, callVars, persistVars,
                   selectedView>>

NextView ==
    \/ ClickViewButton
    \/ ClickDayTab
    \/ ClickShiftButton
    \/ TimerTick

SpecView == InitView /\ [][NextView]_vars

\* the browser runs the callback of a live interval every 60 s: a tick that
\* stays possible happens
SpecViewLive == SpecView /\ WF_vars(TimerTick)

(* ====================== claims: column packing ======================== *)

ResultPositions == DOMAIN layoutResult

ShowOf(i) == layoutInput[layoutResult[i].pos]

\* every show of the track has its end after its start
AllProper == \A p \in DOMAIN layoutInput :
                 StartMin(layoutInput[p]) < EndMin(layoutInput[p])

\* C2: no two events whose offset ranges overlap (startA < endB and
\* endA > startB, a missing end taken as start + 45) get the same column.
C2_NoOverlapSharesColumn ==
    \A i, j \in ResultPositions :
        (i # j /\ Overlaps(ShowOf(i), ShowOf(j)))
            => layoutResult[i].col # layoutResult[j].col

\* three shows laid out, all overlapping each other, one column reused later
C2_Witness ==
    /\ Len(layoutResult) = 4
    /\ \E i, j, k \in ResultPositions :
          /\ i < j /\ j < k
          /\ Overlaps(ShowOf(i), ShowOf(j))
          /\ Overlaps(ShowOf(j), ShowOf(k))
          /\ Overlaps(ShowOf(i), ShowOf(k))
    /\ \E i, j \in ResultPositions :
          i # j /\ layoutResult[i].col = layoutResult[j].col

\* the events in progress at instant t
InProgressAt(t) ==
    {p \in DOMAIN layoutInput :
        StartMin(layoutInput[p]) <= t /\ t < EndMin(layoutInput[p])}

\* the size of the maximal overlap cluster of the event at input position p:
\* the most events in progress at one instant of its range (the maximum is
\* taken at an instant where some event starts), itself included
ClusterSize(p) ==
    LET instants == {StartMin(layoutInput[q]) : q \in DOMAIN layoutInput}
        mine == {t \in instants : p \in InProgressAt(t)}
    IN  Max({Cardinality(InProgressAt(t)) : t \in mine} \cup {1})

\* C3 as stated: totalColumns equals the size of the maximal overlap cluster
\* containing the event (taken on tracks whose events all end after they
\* start, where "in progress" is beyond doubt).
C3_TotalColsIsClusterSize ==
    AllProper =>
        \A i \in ResultPositions :
            layoutResult[i].totalCols = ClusterSize(layoutResult[i].pos)

\* C3 amended: totalColumns is one plus the highest column among the events
\* whose range overlaps the event's (itself included); it is never below the
\* size of the event's maximal overlap cluster and can exceed it.
C3_TotalColsCoversCluster ==
    \A i \in ResultPositions :
        /\ layoutResult[i].totalCols >= ClusterSize(layoutResult[i].pos)
        /\ layoutResult[i].totalCols > layoutResult[i].col
        /\ \E j \in ResultPositions :
              /\ j = i \/ Overlaps(ShowOf(i), ShowOf(j))
              /\ layoutResult[j].col + 1 = layoutResult[i].totalCols

\* an event of a track of well-formed events reports 3 columns although at
\* most 2 events are ever in progress during it
C3_Witness ==
    /\ AllProper
    /\ \E i \in ResultPositions :
          /\ layoutResult[i].totalCols = 3
          /\ ClusterSize(layoutResult[i].pos) = 2

\* the sets of events that overlap each other pairwise
Cliques ==
    {S \in SUBSET DOMAIN layoutInput :
        \A p, q \in S : p # q => Overlaps(layoutInput[p], layoutInput[q])}

MaxClique == Max({Cardinality(S) : S \in Cliques})

ColumnsUsed == {layoutResult[i].col : i \in ResultPositions}

\* C4 as stated: the number of distinct columns used equals the maximum
\* number of events that mutually overlap under the pairwise test.
C4_ColumnsAreMinimal ==
    Len(layoutResult) = Len(layoutInput)
        => Cardinality(ColumnsUsed) = MaxClique

\* C4 amended: the number of columns used is never below the maximum number
\* of mutually overlapping events, and equals it when every event ends after
\* it starts.
C4_ColumnsMinimalWhenProper ==
    Len(layoutResult) = Len(layoutInput)
        => /\ Cardinality(ColumnsUsed) >= MaxClique
           /\ AllProper => Cardinality(ColumnsUsed) = MaxClique

\* four well-formed events packed into two columns, a column being reused
C4_Witness ==
    /\ AllProper
    /\ Len(layoutResult) = 4
    /\ MaxClique = 2
    /\ Cardinality(ColumnsUsed) = 2

\* the result lists the shows by start offset, equal starts in input order
StableOrder ==
    \A i, j \in ResultPositions :
        i < j => \/ StartMin(ShowOf(i)) < StartMin(ShowOf(j))
                 \/ /\ StartMin(ShowOf(i)) = StartMin(ShowOf(j))
                    /\ layoutResult[i].pos < layoutResult[j].pos

CatalogArtists == {allArtists[i] : i \in {j \in DOMAIN allArtists :
                                              allArtists[j].entity_id # NoId}}

C7_MigrationIdempotent ==
    [][migrationRuns >= 1 => (ratings' = ratings /\ storedRatings' = storedRatings)]_vars

\* the loop has run twice and its first run moved two ratings
C7_Witness ==
    /\ migrationRuns = 2
    /\ Cardinality(DOMAIN ratings \ DOMAIN ratingsAtLoad) = 2
    /\ storedRatings = ratings

(* ====================== claims: loading the artists =================== *)

LoadFinished == artistsPc \in {"done", "threw"}

\* C8: on every data load of the artist page the merge of user-submitted
\* artists and the rating migration are executed once before the load
\* finishes and the list is rendered, whatever the optional fetches did.
C8_MergeAndMigrationRunOnce ==
    LoadFinished => (userMergeRuns = 1 /\ migrationRuns = 1 /\ rendered)

(* ====================== claims: identity keys ========================= *)

\* the lower-cased name with every character outside [a-z0-9] replaced by _
ExpectedSlug(name) ==
    [i \in DOMAIN name |->
        LET c == LowerChar(name[i])
        IN  IF c \in LowerCaseLetters \/ c \in Range(DigitChars) THEN c ELSE "_"]

EidPrefix == <<"e", "i", "d", "_">>

NamePrefix == <<"n", "a", "m", "e", "_">>

C1_NoDuplicateNaturalKey ==
    \A i, j \in DOMAIN allShows :
        i # j => ShowKey(allShows[i]) # ShowKey(allShows[j])

\* C10: every event that the load took from the official or the curated
\* unofficial catalog is still in the in-memory collection, whatever was
\* deleted, added or imported since.
C10_CatalogShowsStay ==
    schedPc = "loaded" => catalogShows \subseteq Range(allShows)


(* ================== claims: ratings and the event lifecycle ============ *)

SameArtistName(a, b) == toLowerCase(a.artist_name) = toLowerCase(b.artist_name)

\* C11: no operation of the schedule page writes the persisted ratings; the
\* ratings object of the loaded page is the persisted one and no add, import,
\* delete or selection changes it; two user events of the same artist get the
\* same rating, so the rating of a deleted event applies to a later one.
C11_RatingsOutliveEvents ==
    /\ [][storedRatings' = storedRatings]_vars
    /\ [][(schedPc = "loaded" /\ schedPc' = "loaded") =>
            (ratings' = ratings /\ artistEntityIdMap' = artistEntityIdMap)]_vars
    /\ [](schedPc = "loaded" => ratings = storedRatings)
    /\ [](\A a, b \in UserShows : SameArtistName(a, b) => getRating(a) = getRating(b))

\* a rated catalog event was deleted and a user event of the same artist,
\* still in the collection, shows the artist's rating
C11_Witness ==
    /\ schedPc = "loaded"
    /\ \E c \in catalogShows :
          /\ c \notin Range(allShows)
          /\ \E i \in DOMAIN allShows :
                /\ allShows[i].source = "user"
                /\ SameArtistName(allShows[i], c)
                /\ getRating(allShows[i]) > 0


(* ====================== claims: the schedule importer ================= *)

CsvShow(name, venue, day, time) ==
    [artist_name |-> name, venue |-> venue, day |-> day, start_time |-> time,
     source |-> "user", entity_id |-> NoId]

VenueA == <<"V", "e", "n", "u", "e", " ", "A">>

VenueB == <<"V", "e", "n", "u", "e", " ", "B">>

BandX == <<"B", "a", "n", "d", " ", "X">>

BandY == <<"B", "a", "n", "d", " ", "Y">>

BandZ == <<"B", "a", "n", "d", " ", "Z">>

\* C12: the text with header `Time,Venue A,Venue B`, row `9:00 AM,Band X,Band Y`
\* and row `,Band Z,` gives exactly three events: Band X at 09:00 in Venue A,
\* Band Y at 09:00 in Venue B and Band Z at 09:30 in Venue A (the artist cells
\* of an hour-marker row are emitted at the base time).
C12_HourMarkerRowEmitsAtBase ==
    (csvText = <<CsvHeader, RowHourMarkerAM, RowSecondSlot>> /\ csvShows # NotParsed)
    => \E day \in FestivalDays :
          csvShows = <<CsvShow(BandX, VenueA, day, <<9, 0>>),
                       CsvShow(BandY, VenueB, day, <<9, 0>>),
                       CsvShow(BandZ, VenueA, day, <<9, 30>>)>>

\* the override rows of the model's texts: <<line, artist, digits>>
OverrideRows ==
    {<<RowOverride3, <<"C", "o", "m", "b", "o">>, <<"2", "1", "5">>>>,
     <<RowOverride4, <<"D", "u", "o">>, <<"1", "2", "3", "0">>>>,
     <<RowOverride9, <<"T", "r", "i", "o">>, <<"9", "3", "0">>>>}

HourMarkerRows == {RowHourMarkerAM, RowHourMarkerPM, RowHourMarkerLate}

\* the time the claim gives for a parenthesised number: MM its last two
\* digits, HH the digits before them, plus 12 when HH is below 9
C13_ExpectedTime(digits) ==
    LET number == parseInt(digits)
        hh == number \div 100
    IN  <<IF hh < 9 THEN hh + 12 ELSE hh, number % 100>>

\* C13: a cell `Name (215)` or `Name (1230)` is emitted under the name without
\* the parenthetical, at the time the number gives and no other, whatever the
\* base time and the slot offset of its row are.
C13_OverrideSetsStartTime ==
    csvShows # NotParsed =>
        \A o \in OverrideRows :
            /\ \A i \in DOMAIN csvShows :
                  csvShows[i].artist_name = o[2]
                  => csvShows[i].start_time = C13_ExpectedTime(o[3])
            /\ \A r \in DOMAIN csvText :
                  (csvText[r] = o[1] /\ \E q \in 1..(r - 1) : csvText[q] \in HourMarkerRows)
                  => \E i \in DOMAIN csvShows :
                        /\ csvShows[i].artist_name = o[2]
                        /\ csvShows[i].venue = VenueA

\* `Combo (215)` under the base time 14:00 was parsed and starts at 14:15
C13_Witness ==
    /\ csvText = <<CsvHeader, RowHourMarkerPM, RowOverride3>>
    /\ csvShows # NotParsed
    /\ \E day \in FestivalDays :
          csvShows = <<CsvShow(<<"C", "o", "m", "b", "o">>, VenueA, day, <<14, 15>>)>>

\* C14: confirming an import whose every show is already in allShows (the
\* same parsed input confirmed again after it was added) leaves allShows and
\* the persisted user shows as they were, and the alert reports 0 added and
\* as many skipped as were parsed
C14_ReimportAddsNothing ==
    [][(/\ importReport' # importReport
        /\ importReport' # <<>>
        /\ KeysOf(pendingCsvShows) \subseteq KeysOf(allShows))
       => /\ allShows' = allShows
          /\ userShowsStore' = userShowsStore
          /\ importReport'[1] = 0
          /\ importReport'[1] + importReport'[2] = Len(pendingCsvShows)
          /\ importReport'[2] = Len(pendingCsvShows)]_vars

\* a confirmed import that added nothing: every parsed show was a duplicate
\* of a show an earlier import had persisted
C14_Witness ==
    /\ importReport # <<>>
    /\ importReport[1] = 0
    /\ importReport[2] = Len(pendingCsvShows)
    /\ importReport[2] >= 1
    /\ Range(pendingCsvShows) \subseteq Range(userShowsStore)
    /\ Range(pendingCsvShows) \subseteq Range(allShows)

\* C15: minutesFromDayStart maps HH:MM to (HH - 9) * 60 + MM when HH >= 9
\* and to (HH + 24 - 9) * 60 + MM when HH < 9; for every valid time the
\* offset is in 0..1439; 00:30 maps to 930, later than 23:45 at 885
C15_OffsetFromDayStart ==
    /\ callResult # NoResult =>
          /\ callResult[1] \in 0..1439
          /\ \A h \in 0..23, m \in 0..59 :
                callArgs = HourMinuteString(h, m) =>
                   callResult[1] = IF h >= 9 THEN (h - 9) * 60 + m
                                ELSE (h + 24 - 9) * 60 + m
    /\ callArgs = <<"0", "0", ":", "3", "0">> /\ callResult # NoResult
          => callResult[1] = 930
    /\ callArgs = <<"2", "3", ":", "4", "5">> /\ callResult # NoResult
          => callResult[1] = 885

\* the offset of 00:30 has been computed
C15_Witness ==
    /\ callArgs = <<"0", "0", ":", "3", "0">>
    /\ callResult = <<930>>

\* C16: the timeline marks a show as conflicting if and only if the show has
\* a positive rating and its offset range (end defaulting to start + 45)
\* overlaps, by startA < endB and endA > startB, the range of another show
\* with a positive rating; a show without a rating is never marked
C16_ConflictIffRatedOverlap ==
    callResult # NoResult =>
       \A i \in DOMAIN callArgs :
          i \in callResult[1] <=>
             /\ getRating(callArgs[i]) > 0
             /\ \E j \in DOMAIN callArgs \ {i} :
                   /\ getRating(callArgs[j]) > 0
                   /\ StartMin(callArgs[i]) < EndMin(callArgs[j])
                   /\ EndMin(callArgs[i]) > StartMin(callArgs[j])

\* how many elements of the sequence are the show
CountIn(shows, show) == Cardinality({i \in DOMAIN shows : shows[i] = show})

\* C17: for the instant now, a show is a candidate when its end (start + 60
\* minutes by default) is after now and its start at most 2 hours after now.
\* Every candidate is in exactly one bucket: current iff start <= now < end,
\* imminent iff start > now and start - now <= 45 minutes, upcoming
\* otherwise; a show that is no candidate is in no bucket
C17_OneBucketPerCandidate ==
    callResult # NoResult =>
       \A i \in DOMAIN callArgs.shows :
          LET show == callArgs.shows[i]
              now == callArgs.now
              start == (12 * 1440 + show.start_time[1] * 60 + show.start_time[2]) * 2
              end == IF show.end_time = NoTime THEN start + 120
                     ELSE (12 * 1440 + show.end_time[1] * 60 + show.end_time[2]) * 2
              candidate == end > now /\ start <= now + 240
              copies == CountIn(callArgs.shows, show)
              g == callResult[1]
              bucket == IF start <= now /\ now < end THEN "current"
                        ELSE IF start > now /\ start - now <= 90 THEN "imminent"
                        ELSE "upcoming"
          IN  /\ candidate =>
                    /\ CountIn(g[bucket], show) = copies
                    /\ \A other \in {"current", "imminent", "upcoming"} \ {bucket} :
                          CountIn(g[other], show) = 0
              /\ ~candidate =>
                    \A other \in {"current", "imminent", "upcoming"} :
                       CountIn(g[other], show) = 0

\* at 21:00 the show that starts at 21:00 is current and the show that
\* starts at 21:45, exactly 45 minutes later, is imminent
C17_Witness ==
    /\ callResult # NoResult
    /\ callArgs.now = (12 * 1440 + 21 * 60) * 2
    /\ Len(callResult[1].current) = 1
    /\ callResult[1].current[1].start_time = <<21, 0>>
    /\ Len(callResult[1].imminent) = 1
    /\ callResult[1].imminent[1].start_time = <<21, 45>>

\* the venues of the call that have a show
C18_Present == {callArgs.dayShows[i].venue : i \in DOMAIN callArgs.dayShows}

\* the group of a venue: the present venues of its cluster, or the venue alone
C18_GroupOf(v) ==
    LET clusters == {Range(callArgs.clusters[i]) : i \in DOMAIN callArgs.clusters}
        mine == {c \in clusters : v \in c}
    IN  IF mine = {} THEN {v} ELSE (UNION mine) \cap C18_Present

\* the sort key of a group: the highest rating of a show in one of its venues
C18_Key(group) ==
    Max({0} \cup {getRating(callArgs.dayShows[i]) :
                     i \in {j \in DOMAIN callArgs.dayShows :
                               callArgs.dayShows[j].venue \in group}})

\* the alphabetically first venue of a group
C18_FirstName(group) == CHOOSE x \in group : \A y \in group \ {x} : StringLess(x, y)

\* C18: getOrderedVenuesForDay lists every venue of the day once; the groups
\* (the present venues of a configured cluster, or a single venue that is in
\* no cluster) come by their highest rating of the day, descending (0 when
\* no show of the group is rated); groups with the same key come in the
\* alphabetical order of their first venue name; the venues of a group are
\* adjacent
C18_VenueOrder ==
    callResult # NoResult =>
       LET out == callResult[1]
       IN  /\ Range(out) = C18_Present
           /\ Len(out) = Cardinality(C18_Present)
           /\ \A i, j \in DOMAIN out :
                 LET gi == C18_GroupOf(out[i])
                     gj == C18_GroupOf(out[j])
                 IN  i < j =>
                       /\ C18_Key(gi) >= C18_Key(gj)
                       /\ (C18_Key(gi) = C18_Key(gj) /\ gi # gj) =>
                             StringLess(C18_FirstName(gi), C18_FirstName(gj))
                       /\ gi = gj => \A k \in i..j : C18_GroupOf(out[k]) = gi

\* a rated singleton venue ahead of an unrated cluster whose venues are
\* listed in the cluster's order, then an unrated venue
C18_Witness ==
    /\ callResult = <<<< (<<"a">>), (<<"B">>), (<<"A">>) >>>>
    /\ Len(callArgs.clusters) = 1

\* C19: while the selected view is not now/next, no callback of the refresh
\* timer invokes renderNowNext, whatever view switches, time-shift clicks
\* and timer ticks came before
C19_NoTimerRenderOffView ==
    lastTick = "rendered" => selectedView = "nownext"

\* the view has left now/next after a timer had been set by a time-shift
\* click or a tick; an interval is still live, its callback has just run and
\* has not rendered
C19_Witness ==
    /\ selectedView # "nownext"
    /\ nowNextTimer = NoTimer
    /\ liveIntervals # {}
    /\ nextIntervalId > 2
    /\ lastTick = "skipped"

\* C20: when loadAll finishes and shows.json and venues.json were read, the
\* records of every source that succeeded are in the store whatever became
\* of the optional sources: the shows of shows.json, the shows of
\* unofficial_shows.json if it was read, the entity ids of artists.json if
\* it was read; a failed optional source counts as empty
C20_FailedOptionalSourceIsEmpty ==
    [][(/\ schedPc = "settled"
        /\ schedPc' = "loaded"
        /\ schedFetched[1] = "ok"
        /\ schedFetched[3] = "ok")
       => /\ Range(ShowsJson) \subseteq Range(allShows')
          /\ schedFetched[2] = "ok" =>
                KeysOf(UnofficialShowsJson) \subseteq KeysOf(allShows')
          /\ schedFetched[4] = "ok" =>
                artistEntityIdMap' = BuildEntityIdMap(<<>>, ArtistsJson)]_vars

\* C21: after every operation that changes ratings, notes, tiers or the
\* user-added artists, the persisted sxsw2026_state record equals the
\* in-memory state
C21_PersistedEqualsMemory ==
    /\ storedRatings = ratings
    /\ storedRest = StateRecord(notes, genreTiers, subgenreTiers, userArtists)

\* C22: the second pass of layoutColumns sets each event's totalCols to one
\* plus the highest column among the event itself and all events of the full
\* set whose range overlaps it (startA < endB and endA > startB, a missing
\* end taken as start + 45), so col < totalCols for every event
C22_TotalColsIsMaxOverlappingColPlusOne ==
    \A i \in ResultPositions :
       LET overlapping ==
              {j \in ResultPositions :
                  /\ StartMin(ShowOf(i)) < EndMin(ShowOf(j))
                  /\ EndMin(ShowOf(i)) > StartMin(ShowOf(j))}
           cols == {layoutResult[j].col : j \in overlapping \cup {i}}
       IN  /\ layoutResult[i].totalCols = 1 + Max(cols)
           /\ layoutResult[i].col < layoutResult[i].totalCols

\* an event in column 0 overlapped by a later event in column 2, and an
\* event whose end is not after its start, which does not overlap itself
C22_Witness ==
    /\ \E i, j \in ResultPositions :
          /\ i < j
          /\ layoutResult[i].col = 0
          /\ layoutResult[j].col = 2
          /\ Overlaps(ShowOf(i), ShowOf(j))
          /\ layoutResult[i].totalCols = 3
    /\ \E k \in ResultPositions : ~Overlaps(ShowOf(k), ShowOf(k))

\* the rows with an empty first field and a cell without time override, with
\* the artist and the venue of that cell
C23_SecondSlotRows ==
    {<<RowSecondSlot, BandZ, VenueA>>,
     <<RowMetaAndQuoted, <<"A", ",", " ", "B">>, VenueB>>}

\* the base time in minutes that an hour-marker row of the texts sets
C23_BaseMinutes(row) ==
    IF row = RowHourMarkerAM THEN 9 * 60
    ELSE IF row = RowHourMarkerPM THEN 14 * 60
    ELSE 23 * 60 + 30

\* the start time expected for the row at position r: <<>> when no hour
\* marker is above it, else the base of the nearest one above plus 30
\* minutes, modulo 24 hours
C23_ExpectedTime(r) ==
    LET above == {q \in 1..(r - 1) : csvText[q] \in HourMarkerRows}
        total == (C23_BaseMinutes(csvText[Max(above)]) + 30) % 1440
    IN  IF above = {} THEN <<>> ELSE <<total \div 60, total % 60>>

\* C23: a cell without time override in a row whose first field is empty is
\* emitted with the base time of the most recent hour-marker row above plus
\* 30 minutes, modulo 24 hours (23:30 gives 00:00); such a row emits nothing
\* when no hour marker is above it
C23_SecondSlotIsBasePlus30 ==
    csvShows # NotParsed =>
       \A kind \in C23_SecondSlotRows :
          \A time \in {<<h, m>> : h \in 0..24, m \in {0, 30}} :
             Cardinality({i \in DOMAIN csvShows :
                            /\ csvShows[i].artist_name = kind[2]
                            /\ csvShows[i].venue = kind[3]
                            /\ csvShows[i].start_time = time})
               = Cardinality({r \in DOMAIN csvText :
                                /\ csvText[r] = kind[1]
                                /\ C23_ExpectedTime(r) = time})

\* a second-slot row below the 11:30 pm marker was emitted at 00:00, and a
\* second-slot row above every marker was not emitted
C23_Witness ==
    /\ csvShows # NotParsed
    /\ csvText = <<CsvHeader, RowSecondSlot, RowHourMarkerLate, RowSecondSlot>>
    /\ Len(csvShows) = 1
    /\ csvShows[1].artist_name = BandZ
    /\ csvShows[1].start_time = <<0, 0>>

\* C29: every event parseScheduleCsv emits has a start time HH:MM with
\* 00 <= HH <= 23 and 00 <= MM <= 59, whatever hour markers and 3 or 4 digit
\* time overrides the text holds
C29_StartTimesAreValid ==
    csvShows # NotParsed =>
       \A i \in DOMAIN csvShows :
          /\ csvShows[i].start_time[1] \in 0..23
          /\ csvShows[i].start_time[2] \in 0..59

\* C24: within each now/next bucket the events come by start offset from the
\* day start (09:00) ascending, so an event of the day that starts at 00:30
\* is listed after an event of the same day that starts at 23:45
C24_BucketsSortedByOffset ==
    callResult # NoResult =>
       \A name \in {"current", "imminent", "upcoming"} :
          LET bucket == callResult[1][name]
          IN  \A i, j \in DOMAIN bucket :
                 (i < j /\ bucket[i].day = bucket[j].day) =>
                    minutesFromDayStart(bucket[i].start_time)
                       <= minutesFromDayStart(bucket[j].start_time)

\* C25: while the now/next view stays selected, renderNowNext is invoked
\* again by the refresh timer after every invocation, also after one that
\* found no event in the window: from any moment at which the view is
\* now/next, a timer callback renders or the view is left
C25_RefreshFollowsEveryRender ==
    [](selectedView = "nownext"
          => <>(lastTick = "rendered" \/ selectedView # "nownext"))

\* C26: at every moment at most one refresh interval is live, and a live
\* interval is the one whose handle nowNextTimer holds
C26_OneLiveInterval ==
    /\ Cardinality(liveIntervals) <= 1
    /\ liveIntervals # {} => liveIntervals = {nowNextTimer}

\* C28: for every cluster configuration, also one that lists a venue in two
\* clusters or starts two clusters with the same venue, the result of
\* getOrderedVenuesForDay holds exactly the venues with an event of the day,
\* each of them once
C28_VenuesArePermutation ==
    callResult # NoResult =>
       LET out == callResult[1]
           present == {callArgs.dayShows[i].venue : i \in DOMAIN callArgs.dayShows}
       IN  /\ Range(out) = present
           /\ Len(out) = Cardinality(present)

\* C30: a manual add and a confirmed CSV import leave the selected day as it
\* was: the day shown after the step is the day selected before it
C30_AddKeepsSelectedDay ==
    [][(AddShow \/ ConfirmImport) => selectedDay' = selectedDay]_vars

\* what loadAll builds over the catalog of the last load and the persisted
\* user shows, as a set
C27_Reloaded ==
    catalogShows \cup {x \in Range(userShowsStore) :
                          ShowKey(x) \notin {ShowKey(c) : c \in catalogShows}}

\* C27: whatever was added, imported and deleted since the load, loading
\* again over the same static files and the persisted user shows gives the
\* set of events the in-memory collection holds
C27_ReloadRoundTrip ==
    schedPc = "loaded" => Range(allShows) = C27_Reloaded

=============================================================================
